---- MODULE Spec2Model ----
(***************************************************************************)
(* A model of the parser-combinator package (src/parser.go).               *)
(*                                                                         *)
(* A Go string is a sequence of bytes (integers 0..255), indexed from 1    *)
(* here and from 0 in the source; every position the source computes is    *)
(* kept 0-based and converted only inside Slice.  A parser invocation is   *)
(* one action: it reads input, runs the whole closure and writes the       *)
(* returned (value, remainder, err) to result.  A run-time panic of the    *)
(* closure (a slice bound out of range) is recorded as result.panic.  The   *)
(* calls a combinator made to the functions it was given (its parser, its  *)
(* fn), with their arguments, are recorded in order in calls.  A second     *)
(* specification, ScanSpec, runs the scanning loops one iteration per      *)
(* step, with the loop's variables in loop.  A third, RaceSpec, runs       *)
(* several invocations of one parser value concurrently, each with its     *)
(* input, position, loop variables and result in invocations.              *)
(***************************************************************************)
EXTENDS Integers, Sequences, FiniteSets, TLC

VARIABLES input, parser, result, pc, calls, loop, invocations

vars == <<input, parser, result, pc, calls, loop, invocations>>

(***************************************************************************)
(* Bounds of the model.                                                    *)
(***************************************************************************)
\* inputs are concatenations of at most MaxInputChunks chunks
MaxInputChunks == 3
\* match strings and charsets are concatenations of at most MaxArgChunks chunks
MaxArgChunks == 2
\* Try and Chain are given at most MaxParsers parsers, Count a count of at
\* most MaxParsers + 1
MaxParsers == 2

\* utf8.RuneError, U+FFFD
RuneError == 65533

(***************************************************************************)
(* The bytes strings are built from: 's', 'S', the two bytes of U+017F     *)
(* (long s, which case-folds to 's' and 'S' but is two bytes long), the    *)
(* three bytes of U+FFFD, and an ill-formed fragment: the lead byte of a   *)
(* two-byte char without its continuation byte.                            *)
(***************************************************************************)
Chunks ==
    { <<115>>, <<83>>, <<197, 191>>, <<239, 191, 189>>, <<197>> }

RECURSIVE Concats(_)
Concats(k) ==
    IF k = 0 THEN { <<>> }
    ELSE LET prev == Concats(k - 1)
         IN  prev \cup { p \o c : p \in prev, c \in Chunks }

Inputs == Concats(MaxInputChunks)

Args == Concats(MaxArgChunks)

\* counts handed to Take and TakeWhileBetween, negative and too large included
Counts == (0 - 1) .. (MaxInputChunks + 1)

(***************************************************************************)
(* Go's slicing and the unicode/utf8 and strings functions the source      *)
(* calls, computed as Go computes them.                                    *)
(***************************************************************************)
\* s[from:to] for 0 <= from <= to <= len(s)
Slice(s, from, to) == SubSeq(s, from + 1, to)

\* whether Go evaluates s[from:to] without a run-time panic
SliceOk(s, from, to) == 0 <= from /\ from <= to /\ to <= Len(s)

\* utf8.DecodeRuneInString(s[pos:]): the rune and its width in bytes
DecodeAt(s, pos) ==
    LET n    == Len(s) - pos
        bad  == [r |-> RuneError, width |-> 1]
        b0   == s[pos + 1]
        size == IF b0 < 224 THEN 2 ELSE IF b0 < 240 THEN 3 ELSE 4
        lo   == IF b0 = 224 THEN 160 ELSE IF b0 = 240 THEN 144 ELSE 128
        hi   == IF b0 = 237 THEN 159 ELSE IF b0 = 244 THEN 143 ELSE 191
        cont(b) == 128 <= b /\ b <= 191
    IN  IF n < 1 THEN [r |-> RuneError, width |-> 0]
        ELSE IF b0 < 128 THEN [r |-> b0, width |-> 1]
        ELSE IF b0 < 194 \/ b0 > 244 THEN bad
        ELSE IF n < size THEN bad
        ELSE IF s[pos + 2] < lo \/ s[pos + 2] > hi THEN bad
        ELSE IF size = 2
             THEN [r |-> (b0 % 32) * 64 + (s[pos + 2] % 64), width |-> 2]
        ELSE IF ~cont(s[pos + 3]) THEN bad
        ELSE IF size = 3
             THEN [r |-> (b0 % 16) * 4096 + (s[pos + 2] % 64) * 64
                          + (s[pos + 3] % 64),
                   width |-> 3]
        ELSE IF ~cont(s[pos + 4]) THEN bad
        ELSE [r |-> (b0 % 8) * 262144 + (s[pos + 2] % 64) * 4096
                     + (s[pos + 3] % 64) * 64 + (s[pos + 4] % 64),
              width |-> 4]

DecodeRuneInString(s) == DecodeAt(s, 0)

\* utf8.RuneLen
RuneLen(r) ==
    IF r < 0 THEN 0 - 1
    ELSE IF r < 128 THEN 1
    ELSE IF r < 2048 THEN 2
    ELSE IF 55296 <= r /\ r <= 57343 THEN 0 - 1
    ELSE IF r < 65536 THEN 3
    ELSE IF r <= 1114111 THEN 4
    ELSE 0 - 1

\* string(r): the UTF-8 encoding of a rune
EncodeRune(r) ==
    IF r < 0 \/ r > 1114111 \/ (55296 <= r /\ r <= 57343)
    THEN <<239, 191, 189>>
    ELSE IF r < 128 THEN <<r>>
    ELSE IF r < 2048 THEN <<192 + (r \div 64), 128 + (r % 64)>>
    ELSE IF r < 65536
         THEN <<224 + (r \div 4096), 128 + ((r \div 64) % 64), 128 + (r % 64)>>
    ELSE <<240 + (r \div 262144), 128 + ((r \div 4096) % 64),
           128 + ((r \div 64) % 64), 128 + (r % 64)>>

\* the pair for the char d decoded at pos
RangePair(pos, d) == [pos |-> pos, char |-> d.r, width |-> d.width]

\* the (pos, char) pairs of `for pos, char := range s`, from byte pos on
RangeFrom(s, pos) ==
    LET from[p \in 0 .. Len(s)] ==
            IF p >= Len(s) THEN <<>>
            ELSE <<RangePair(p, DecodeAt(s, p))>> \o from[p + DecodeAt(s, p).width]
    IN  from[pos]

Range(s) == RangeFrom(s, 0)

\* utf8.ValidString: every decoding step yields a rune that is not the
\* width-1 error of an ill-formed sequence
ValidRange(rng) ==
    \A i \in 1 .. Len(rng) : ~(rng[i].char = RuneError /\ rng[i].width = 1)

ValidString(s) == ValidRange(Range(s))

\* utf8.RuneCountInString
RuneCountInString(s) == Len(Range(s))

\* strings.HasPrefix(s[at:], sub)
MatchAt(s, sub, at) ==
    /\ at + Len(sub) <= Len(s)
    /\ \A j \in 1 .. Len(sub) : s[at + j] = sub[j]

\* strings.Index: the byte offset of the first occurrence, or -1
Index(s, sub) ==
    LET hits == { at \in 0 .. Len(s) : MatchAt(s, sub, at) }
    IN  IF hits = {} THEN 0 - 1
        ELSE CHOOSE at \in hits : \A o \in hits : at <= o

\* unicode.SimpleFold on the runes the model's strings can hold: the orbit
\* 'S' -> 's' -> U+017F -> 'S'; U+FFFD has no other case
SimpleFold(r) ==
    IF r = 83 THEN 115
    ELSE IF r = 115 THEN 383
    ELSE IF r = 383 THEN 83
    ELSE r

\* the orbit walk of strings.EqualFold: does folding sr (< tr) reach tr
RECURSIVE FoldReach(_, _, _)
FoldReach(sr, r, tr) ==
    IF r /= sr /\ r < tr THEN FoldReach(sr, SimpleFold(r), tr) ELSE r = tr

\* one rune comparison of strings.EqualFold
FoldEq(a, b) ==
    LET sr == IF a < b THEN a ELSE b
        tr == IF a < b THEN b ELSE a
    IN  \/ a = b
        \/ IF tr < 128
           THEN 65 <= sr /\ sr <= 90 /\ tr = sr + 32
           ELSE FoldReach(sr, SimpleFold(sr), tr)

\* strings.EqualFold(s[i:], t[j:])
RECURSIVE EqualFoldFrom(_, _, _, _)
EqualFoldFrom(s, i, t, j) ==
    IF i >= Len(s) THEN j >= Len(t)
    ELSE IF j >= Len(t) THEN FALSE
    ELSE LET sd == DecodeAt(s, i)
             td == DecodeAt(t, j)
         IN  /\ FoldEq(sd.r, td.r)
             /\ EqualFoldFrom(s, i + sd.width, t, j + td.width)

EqualFold(s, t) == EqualFoldFrom(s, 0, t, 0)

\* strings.ContainsRune(chars, r), i.e. strings.IndexRune(chars, r) >= 0
ContainsRune(chars, r) ==
    IF r = RuneError
    THEN \E i \in 1 .. Len(Range(chars)) : Range(chars)[i].char = RuneError
    ELSE IF RuneLen(r) < 0 THEN FALSE
    ELSE Index(chars, EncodeRune(r)) >= 0

(***************************************************************************)
(* Predicates func(r rune) bool: nil, or the set of runes it is true of.   *)
(***************************************************************************)
NilPredicate == [nil |-> TRUE, true |-> {}]

Predicate(set) == [nil |-> FALSE, true |-> set]

\* predicate(char)
Holds(predicate, char) == char \in predicate.true

\* every rune a string of the model decodes to
Runes == { 115, 83, 383, RuneError }

Predicates ==
    { NilPredicate } \cup
    { Predicate(set) : set \in { {}, {115}, {83}, {115, 383}, {115, 83, 383}, Runes } }

(***************************************************************************)
(* The three values a Parser returns.  err is nil or a formatted message:  *)
(* the format strings, outermost first when an error wraps another, with   *)
(* the integer and the string arguments.                                   *)
(***************************************************************************)
Nil == [msgs |-> <<>>, nums |-> <<>>, strs |-> <<>>]

\* errors.New
New(msg) == [msgs |-> <<msg>>, nums |-> <<>>, strs |-> <<>>]

\* fmt.Errorf
Errorf(msg, nums, strs) == [msgs |-> <<msg>>, nums |-> nums, strs |-> strs]

\* fmt.Errorf(msg + ": %w", err)
Wrapf(msg, err) == [err EXCEPT !.msgs = <<msg>> \o err.msgs]

\* return value, remainder, err
Return(value, remainder, err) ==
    [value |-> value, remainder |-> remainder, err |-> err, panic |-> FALSE]

\* the closure did not return: a run-time panic
Panic == [value |-> <<>>, remainder |-> <<>>, err |-> Nil, panic |-> TRUE]

\* return input[:end], input[end:], nil
\* the success return with the remainder starting one byte late
CutSkipsByte(in, end) ==
    IF SliceOk(in, 0, end)
    THEN Return(Slice(in, 0, end),
                Slice(in, IF end < Len(in) THEN end + 1 ELSE end, Len(in)), Nil)
    ELSE Panic

Cut(in, end) ==
    IF SliceOk(in, 0, end)
    THEN Return(Slice(in, 0, end), Slice(in, end, Len(in)), Nil)
    ELSE Panic

(***************************************************************************)
(* The primitive parsers: each operator is the closure the constructor     *)
(* returns, applied to the input in.                                       *)
(***************************************************************************)
\* Take with the empty-input check moved in front of the check of n
TakeChecksEmptyFirst(n, in) ==
    IF in = <<>>
    THEN Return(<<>>, <<>>, New("Take: cannot take from empty input"))
    ELSE IF n <= 0
    THEN Return(<<>>, <<>>,
            Errorf("Take: n must be a non-zero positive integer, got %d", <<n>>, <<>>))
    ELSE IF ~ValidString(in)
    THEN Return(<<>>, <<>>, New("Take: input not valid utf-8"))
    ELSE LET rng == Range(in)
         IN  IF Len(rng) < n
             THEN Return(<<>>, <<>>,
                     Errorf("Take: requested n (%d) chars but input had only %d utf-8 chars",
                            <<n, Len(rng)>>, <<>>))
             ELSE Cut(in, rng[n].pos + RuneLen(rng[n].char))

\* Take cutting at the start of the nth rune instead of at its end
TakeCutsBeforeNth(n, in) ==
    IF n <= 0
    THEN Return(<<>>, <<>>,
            Errorf("Take: n must be a non-zero positive integer, got %d", <<n>>, <<>>))
    ELSE IF in = <<>>
    THEN Return(<<>>, <<>>, New("Take: cannot take from empty input"))
    ELSE IF ~ValidString(in)
    THEN Return(<<>>, <<>>, New("Take: input not valid utf-8"))
    ELSE LET rng == Range(in)
         IN  IF Len(rng) < n
             THEN Return(<<>>, <<>>,
                     Errorf("Take: requested n (%d) chars but input had only %d utf-8 chars",
                            <<n, Len(rng)>>, <<>>))
             ELSE Cut(in, rng[n].pos)

Take(n, in) ==
    IF n <= 0
    THEN Return(<<>>, <<>>,
            Errorf("Take: n must be a non-zero positive integer, got %d", <<n>>, <<>>))
    ELSE IF in = <<>>
    THEN Return(<<>>, <<>>, New("Take: cannot take from empty input"))
    ELSE IF ~ValidString(in)
    THEN Return(<<>>, <<>>, New("Take: input not valid utf-8"))
    ELSE LET rng   == Range(in)
             \* the loop leaves at the nth rune, or when the input is exhausted
             runes == IF Len(rng) >= n THEN n ELSE Len(rng)
             end   == IF Len(rng) >= n
                      THEN rng[n].pos + RuneLen(rng[n].char)
                      ELSE 0
         IN  IF runes < n
             THEN Return(<<>>, <<>>,
                     Errorf("Take: requested n (%d) chars but input had only %d utf-8 chars",
                            <<n, runes>>, <<>>))
             ELSE Cut(in, end)

\* Exact accepting the match at any offset (start == -1 as the only failure)
ExactAnywhere(match, in) ==
    IF in = <<>>
    THEN Return(<<>>, <<>>, New("Exact: cannot match on empty input"))
    ELSE IF ~ValidString(in)
    THEN Return(<<>>, <<>>, New("Exact: input not valid utf-8"))
    ELSE IF match = <<>>
    THEN Return(<<>>, <<>>, New("Exact: match must not be empty"))
    ELSE IF Index(in, match) = 0 - 1
    THEN Return(<<>>, <<>>, Errorf("Exact: match (%s) not in input", <<>>, <<match>>))
    ELSE Return(match, Slice(in, Len(match), Len(in)), Nil)

Exact(match, in) ==
    IF in = <<>>
    THEN Return(<<>>, <<>>, New("Exact: cannot match on empty input"))
    ELSE IF ~ValidString(in)
    THEN Return(<<>>, <<>>, New("Exact: input not valid utf-8"))
    ELSE IF match = <<>>
    THEN Return(<<>>, <<>>, New("Exact: match must not be empty"))
    ELSE LET start == Index(in, match)
         IN  IF start /= 0
             THEN Return(<<>>, <<>>,
                     Errorf("Exact: match (%s) not in input", <<>>, <<match>>))
             ELSE IF SliceOk(in, Len(match), Len(in))
             THEN Return(match, Slice(in, Len(match), Len(in)), Nil)
             ELSE Panic

\* ExactCaseInsensitive returning the match argument instead of the input's text
ExactCaseInsensitiveReturnsMatch(match, in) ==
    IF Len(in) = 0
    THEN Return(<<>>, <<>>, New("ExactCaseInsensitive: cannot match on empty input"))
    ELSE IF ~ValidString(in)
    THEN Return(<<>>, <<>>, New("ExactCaseInsensitive: input not valid utf-8"))
    ELSE IF Len(match) = 0
    THEN Return(<<>>, <<>>, New("ExactCaseInsensitive: match must not be empty"))
    ELSE IF Len(match) > Len(in) \/ ~EqualFold(Slice(in, 0, Len(match)), match)
    THEN Return(<<>>, <<>>,
            Errorf("ExactCaseInsensitive: match (%s) not in input", <<>>, <<match>>))
    ELSE Return(match, Slice(in, Len(match), Len(in)), Nil)

ExactCaseInsensitive(match, in) ==
    LET inputLen == Len(in)
        matchLen == Len(match)
        potentialMatch == Slice(in, 0, matchLen)
    IN  IF inputLen = 0
        THEN Return(<<>>, <<>>, New("ExactCaseInsensitive: cannot match on empty input"))
        ELSE IF ~ValidString(in)
        THEN Return(<<>>, <<>>, New("ExactCaseInsensitive: input not valid utf-8"))
        ELSE IF matchLen = 0
        THEN Return(<<>>, <<>>, New("ExactCaseInsensitive: match must not be empty"))
        ELSE IF matchLen > inputLen
        THEN Return(<<>>, <<>>,
                Errorf("ExactCaseInsensitive: match (%s) not in input", <<>>, <<match>>))
        ELSE IF ~EqualFold(potentialMatch, match)
        THEN Return(<<>>, <<>>,
                Errorf("ExactCaseInsensitive: match (%s) not in input", <<>>, <<match>>))
        ELSE Return(potentialMatch, Slice(in, matchLen, inputLen), Nil)

Char(char, in) ==
    LET d == DecodeRuneInString(in)
    IN  IF in = <<>>
        THEN Return(<<>>, <<>>, New("Char: input text is empty"))
        ELSE IF d.r = RuneError
        THEN Return(<<>>, <<>>, New("Char: input not valid utf-8"))
        ELSE IF d.r /= char
        THEN Return(<<>>, <<>>,
                Errorf("Char: requested char (%s) not found in input", <<>>,
                       <<EncodeRune(char)>>))
        ELSE Cut(in, d.width)

\* the scan shared by the loops of TakeWhile and TakeUntil: the loop sets
\* end to the position of every char it visits and breaks at the first char
\* on which the predicate returns stop
ScanIn(rng, predicate, stop) ==
    LET hits == { i \in 1 .. Len(rng) : Holds(predicate, rng[i].char) = stop }
        at   == CHOOSE i \in hits : \A o \in hits : i <= o
    IN  IF hits = {}
        THEN [broken |-> FALSE, end |-> IF Len(rng) = 0 THEN 0 ELSE rng[Len(rng)].pos]
        ELSE [broken |-> TRUE, end |-> rng[at].pos]

ScanTo(in, predicate, stop) == ScanIn(Range(in), predicate, stop)

\* TakeWhile breaking on the first char the predicate is true of
TakeWhileBreaksOnTrue(predicate, in) ==
    IF in = <<>>
    THEN Return(<<>>, <<>>, New("TakeWhile: input text is empty"))
    ELSE IF ~ValidString(in)
    THEN Return(<<>>, <<>>, New("TakeWhile: input not valid utf-8"))
    ELSE IF predicate.nil
    THEN Return(<<>>, <<>>, New("TakeWhile: predicate must be a non-nil function"))
    ELSE IF ~ScanTo(in, predicate, TRUE).broken
    THEN Return(<<>>, <<>>, New("TakeWhile: predicate never returned false"))
    ELSE Cut(in, ScanTo(in, predicate, TRUE).end)

\* TakeWhile checking its predicate in front of the input
TakeWhileChecksPredicateFirst(predicate, in) ==
    IF predicate.nil
    THEN Return(<<>>, <<>>, New("TakeWhile: predicate must be a non-nil function"))
    ELSE IF in = <<>>
    THEN Return(<<>>, <<>>, New("TakeWhile: input text is empty"))
    ELSE IF ~ValidString(in)
    THEN Return(<<>>, <<>>, New("TakeWhile: input not valid utf-8"))
    ELSE LET scan == ScanTo(in, predicate, FALSE)
         IN  IF ~scan.broken
             THEN Return(<<>>, <<>>, New("TakeWhile: predicate never returned false"))
             ELSE Cut(in, scan.end)

TakeWhile(predicate, in) ==
    IF in = <<>>
    THEN Return(<<>>, <<>>, New("TakeWhile: input text is empty"))
    ELSE IF ~ValidString(in)
    THEN Return(<<>>, <<>>, New("TakeWhile: input not valid utf-8"))
    ELSE IF predicate.nil
    THEN Return(<<>>, <<>>, New("TakeWhile: predicate must be a non-nil function"))
    ELSE LET scan == ScanTo(in, predicate, FALSE)
         IN  IF ~scan.broken
             THEN Return(<<>>, <<>>, New("TakeWhile: predicate never returned false"))
             ELSE Cut(in, scan.end)

\* TakeUntil returning the whole input when the predicate never returned true
TakeUntilConsumesAll(predicate, in) ==
    IF in = <<>>
    THEN Return(<<>>, <<>>, New("TakeUntil: input text is empty"))
    ELSE IF ~ValidString(in)
    THEN Return(<<>>, <<>>, New("TakeUntil: input not valid utf-8"))
    ELSE IF predicate.nil
    THEN Return(<<>>, <<>>, New("TakeUntil: predicate must be a non-nil function"))
    ELSE IF ~ScanTo(in, predicate, TRUE).broken
    THEN Return(in, <<>>, Nil)
    ELSE Cut(in, ScanTo(in, predicate, TRUE).end)

\* TakeUntil taking the char the predicate is true of into the value
TakeUntilIncludesStop(predicate, in) ==
    IF in = <<>>
    THEN Return(<<>>, <<>>, New("TakeUntil: input text is empty"))
    ELSE IF ~ValidString(in)
    THEN Return(<<>>, <<>>, New("TakeUntil: input not valid utf-8"))
    ELSE IF predicate.nil
    THEN Return(<<>>, <<>>, New("TakeUntil: predicate must be a non-nil function"))
    ELSE IF ~ScanTo(in, predicate, TRUE).broken
    THEN Return(<<>>, <<>>, New("TakeUntil: predicate never returned true"))
    ELSE Cut(in, ScanTo(in, predicate, TRUE).end
                    + DecodeAt(in, ScanTo(in, predicate, TRUE).end).width)

TakeUntil(predicate, in) ==
    IF in = <<>>
    THEN Return(<<>>, <<>>, New("TakeUntil: input text is empty"))
    ELSE IF ~ValidString(in)
    THEN Return(<<>>, <<>>, New("TakeUntil: input not valid utf-8"))
    ELSE IF predicate.nil
    THEN Return(<<>>, <<>>, New("TakeUntil: predicate must be a non-nil function"))
    ELSE LET scan == ScanTo(in, predicate, TRUE)
         IN  IF ~scan.broken
             THEN Return(<<>>, <<>>, New("TakeUntil: predicate never returned true"))
             ELSE Cut(in, scan.end)

\* strings.IndexFunc(in, predicate) /= -1
IndexFuncFound(in, predicate) ==
    LET rng == Range(in)
    IN  \E i \in 1 .. Len(rng) : Holds(predicate, rng[i].char)

\* the first loop of TakeWhileBetween: index stays -1 until a char satisfies
\* the predicate, then is the byte just past the last char of the leading run
LeadingIndexIn(rng, predicate) ==
    LET run == { k \in 0 .. Len(rng) :
                    \A i \in 1 .. k : Holds(predicate, rng[i].char) }
        k   == CHOOSE k \in run : \A o \in run : o <= k
    IN  IF k = 0 THEN 0 - 1 ELSE rng[k].pos + RuneLen(rng[k].char)

LeadingIndex(in, predicate) == LeadingIndexIn(Range(in), predicate)

\* the second loop of TakeWhileBetween cutting in front of rune number upper
CutOffBeforeUpper(startToIndex, upper) ==
    LET rng == Range(startToIndex)
    IN  IF 1 <= upper /\ upper <= Len(rng)
        THEN rng[upper].pos
        ELSE 0

\* the second loop of TakeWhileBetween: cutOff stays 0 unless the loop
\* counts a rune number upper
CutOff(startToIndex, upper) ==
    LET rng == Range(startToIndex)
    IN  IF 1 <= upper /\ upper <= Len(rng)
        THEN rng[upper].pos + RuneLen(rng[upper].char)
        ELSE 0

\* TakeWhileBetween after its first loop, n being the number of chars of
\* startToIndex
TakeWhileBetweenLimits(lower, upper, in, index, startToIndex, n) ==
    IF n < lower
    THEN Return(<<>>, <<>>,
            Errorf("TakeWhileBetween: predicate matched only %d chars (%s), below lower limit (%d)",
                   <<n, lower>>, <<startToIndex>>))
    ELSE IF n > upper
    THEN Cut(in, CutOff(startToIndex, upper))
    ELSE Cut(in, index)

\* TakeWhileBetween from the slicing of input[:index] on
TakeWhileBetweenFrom(lower, upper, in, index) ==
    IF ~SliceOk(in, 0, index)
    THEN Panic
    ELSE TakeWhileBetweenLimits(lower, upper, in, index, Slice(in, 0, index),
                                RuneCountInString(Slice(in, 0, index)))

TakeWhileBetween(lower, upper, predicate, in) ==
    IF in = <<>>
    THEN Return(<<>>, <<>>, New("TakeWhileBetween: input text is empty"))
    ELSE IF ~ValidString(in)
    THEN Return(<<>>, <<>>, New("TakeWhileBetween: input not valid utf-8"))
    ELSE IF predicate.nil
    THEN Return(<<>>, <<>>, New("TakeWhileBetween: predicate must be a non-nil function"))
    ELSE IF lower < 0
    THEN Return(<<>>, <<>>,
            Errorf("TakeWhileBetween: lower limit (%d) not allowed, must be positive integer",
                   <<lower>>, <<>>))
    ELSE IF lower > upper
    THEN Return(<<>>, <<>>,
            Errorf("TakeWhileBetween: invalid range, lower (%d) must be < upper (%d)",
                   <<lower, upper>>, <<>>))
    ELSE IF ~IndexFuncFound(in, predicate)
    THEN Return(<<>>, <<>>, New("TakeWhileBetween: predicate matched no chars in input"))
    ELSE TakeWhileBetweenFrom(lower, upper, in, LeadingIndex(in, predicate))

TakeTo(match, in) ==
    IF in = <<>>
    THEN Return(<<>>, <<>>, New("TakeTo: input text is empty"))
    ELSE IF ~ValidString(in)
    THEN Return(<<>>, <<>>, New("TakeTo: input not valid utf-8"))
    ELSE IF match = <<>>
    THEN Return(<<>>, <<>>, New("TakeTo: match must not be empty"))
    ELSE LET start == Index(in, match)
         IN  IF start = 0 - 1
             THEN Return(<<>>, <<>>,
                     Errorf("TakeTo: match (%s) not in input", <<>>, <<match>>))
             ELSE Cut(in, start)

\* the loop of OneOf and NoneOf: for _, char := range chars { if char == r }
Found(chars, r) ==
    \E i \in 1 .. Len(Range(chars)) : Range(chars)[i].char = r

OneOf(chars, in) ==
    LET d == DecodeRuneInString(in)
    IN  IF in = <<>>
        THEN Return(<<>>, <<>>, New("OneOf: input text is empty"))
        ELSE IF chars = <<>>
        THEN Return(<<>>, <<>>, New("OneOf: chars must not be empty"))
        ELSE IF d.r = RuneError
        THEN Return(<<>>, <<>>, New("OneOf: input not valid utf-8"))
        ELSE IF ~Found(chars, d.r)
        THEN Return(<<>>, <<>>,
                Errorf("OneOf: no requested char (%s) found in input", <<>>, <<chars>>))
        ELSE Cut(in, d.width)

NoneOf(chars, in) ==
    LET d == DecodeRuneInString(in)
    IN  IF in = <<>>
        THEN Return(<<>>, <<>>, New("NoneOf: input text is empty"))
        ELSE IF chars = <<>>
        THEN Return(<<>>, <<>>, New("NoneOf: chars must not be empty"))
        ELSE IF d.r = RuneError
        THEN Return(<<>>, <<>>, New("NoneOf: input not valid utf-8"))
        ELSE IF Found(chars, d.r)
        THEN Return(<<>>, <<>>,
                Errorf("NoneOf: found match (%s) in input", <<>>, <<EncodeRune(d.r)>>))
        ELSE Cut(in, d.width)

\* the loop of AnyOf (member = FALSE) and NotAnyOf (member = TRUE): end stays
\* 0 unless some char has strings.ContainsRune(chars, char) = member, and is
\* then the position of the first such char
EndOfRunIn(chars, rng, member) ==
    LET hits == { i \in 1 .. Len(rng) : ContainsRune(chars, rng[i].char) = member }
        at   == CHOOSE i \in hits : \A o \in hits : i <= o
    IN  IF hits = {} THEN 0 ELSE rng[at].pos

EndOfRun(chars, in, member) == EndOfRunIn(chars, Range(in), member)

AnyOf(chars, in) ==
    IF in = <<>>
    THEN Return(<<>>, <<>>, New("AnyOf: input text is empty"))
    ELSE IF chars = <<>>
    THEN Return(<<>>, <<>>, New("AnyOf: chars must not be empty"))
    ELSE IF ~ValidString(in)
    THEN Return(<<>>, <<>>, New("AnyOf: input not valid utf-8"))
    ELSE LET end == EndOfRun(chars, in, FALSE)
         IN  IF end = 0
             THEN Return(<<>>, <<>>,
                     Errorf("AnyOf: no match for any char in (%s) found in input",
                            <<>>, <<chars>>))
             ELSE Cut(in, end)

NotAnyOf(chars, in) ==
    IF in = <<>>
    THEN Return(<<>>, <<>>, New("NotAnyOf: input text is empty"))
    ELSE IF chars = <<>>
    THEN Return(<<>>, <<>>, New("NotAnyOf: chars must not be empty"))
    ELSE IF ~ValidString(in)
    THEN Return(<<>>, <<>>, New("NotAnyOf: input not valid utf-8"))
    ELSE LET end == EndOfRun(chars, in, TRUE)
         IN  IF end = 0
             THEN Return(<<>>, <<>>,
                     Errorf("NotAnyOf: match found for char in (%s)", <<>>, <<chars>>))
             ELSE Cut(in, end)

(***************************************************************************)
(* Optional is not among the sources at hand (its tests, fuzz test and     *)
(* benchmark are): it is modelled from its specification, "behaves like    *)
(* Exact but a non-match is not an error: returns empty value, full input  *)
(* as remainder", with the failures and messages TestOptional lists.       *)
(***************************************************************************)
\* Optional treating a non-match as the failure Exact makes of it
OptionalFailsOnNoMatch(match, in) ==
    IF in = <<>>
    THEN Return(<<>>, <<>>, New("Optional: input text is empty"))
    ELSE IF ~ValidString(in)
    THEN Return(<<>>, <<>>, New("Optional: input not valid utf-8"))
    ELSE IF match = <<>>
    THEN Return(<<>>, <<>>, New("Optional: match must not be empty"))
    ELSE IF Index(in, match) /= 0
    THEN Return(<<>>, <<>>, Errorf("Optional: match (%s) not in input", <<>>, <<match>>))
    ELSE Return(match, Slice(in, Len(match), Len(in)), Nil)

Optional(match, in) ==
    IF in = <<>>
    THEN Return(<<>>, <<>>, New("Optional: input text is empty"))
    ELSE IF ~ValidString(in)
    THEN Return(<<>>, <<>>, New("Optional: input not valid utf-8"))
    ELSE IF match = <<>>
    THEN Return(<<>>, <<>>, New("Optional: match must not be empty"))
    ELSE IF Index(in, match) /= 0
    THEN Return(<<>>, in, Nil)
    ELSE Return(match, Slice(in, Len(match), Len(in)), Nil)

(***************************************************************************)
(* A parser value: the constructor that made it and its arguments.         *)
(***************************************************************************)
Blank ==
    [op |-> "none", n |-> 0, lower |-> 0, upper |-> 0, match |-> <<>>,
     chars |-> <<>>, char |-> 0, predicate |-> NilPredicate, fn |-> "none",
     parsers |-> <<>>]

TakeP(n) == [Blank EXCEPT !.op = "Take", !.n = n]
ExactP(match) == [Blank EXCEPT !.op = "Exact", !.match = match]
ExactCaseInsensitiveP(match) ==
    [Blank EXCEPT !.op = "ExactCaseInsensitive", !.match = match]
CharP(char) == [Blank EXCEPT !.op = "Char", !.char = char]
TakeWhileP(predicate) == [Blank EXCEPT !.op = "TakeWhile", !.predicate = predicate]
TakeUntilP(predicate) == [Blank EXCEPT !.op = "TakeUntil", !.predicate = predicate]
TakeWhileBetweenP(lower, upper, predicate) ==
    [Blank EXCEPT !.op = "TakeWhileBetween", !.lower = lower, !.upper = upper,
                  !.predicate = predicate]
TakeToP(match) == [Blank EXCEPT !.op = "TakeTo", !.match = match]
OneOfP(chars) == [Blank EXCEPT !.op = "OneOf", !.chars = chars]
NoneOfP(chars) == [Blank EXCEPT !.op = "NoneOf", !.chars = chars]
AnyOfP(chars) == [Blank EXCEPT !.op = "AnyOf", !.chars = chars]
NotAnyOfP(chars) == [Blank EXCEPT !.op = "NotAnyOf", !.chars = chars]
OptionalP(match) == [Blank EXCEPT !.op = "Optional", !.match = match]

\* parser(input) for a primitive parser value
Apply(p, in) ==
    CASE p.op = "Take" -> Take(p.n, in)
      [] p.op = "Exact" -> Exact(p.match, in)
      [] p.op = "ExactCaseInsensitive" -> ExactCaseInsensitive(p.match, in)
      [] p.op = "Char" -> Char(p.char, in)
      [] p.op = "TakeWhile" -> TakeWhile(p.predicate, in)
      [] p.op = "TakeUntil" -> TakeUntil(p.predicate, in)
      [] p.op = "TakeWhileBetween" ->
            TakeWhileBetween(p.lower, p.upper, p.predicate, in)
      [] p.op = "TakeTo" -> TakeTo(p.match, in)
      [] p.op = "OneOf" -> OneOf(p.chars, in)
      [] p.op = "NoneOf" -> NoneOf(p.chars, in)
      [] p.op = "AnyOf" -> AnyOf(p.chars, in)
      [] p.op = "NotAnyOf" -> NotAnyOf(p.chars, in)
      [] p.op = "Optional" -> Optional(p.match, in)

(***************************************************************************)
(* Map over Parser[string] with T2 = int.  The mapping functions: "nil";   *)
(* "length", which never fails; "ascii", which fails on a value holding a  *)
(* byte >= 0x80 and returns 0 with the error; "failing", which always      *)
(* fails and returns a non-zero value with its error, as strconv.ParseInt  *)
(* does on a range error.                                                  *)
(***************************************************************************)
Fns == { "nil", "length", "ascii", "failing" }

\* fn(value)
CallFn(fn, value) ==
    CASE fn = "length" -> [value |-> Len(value), err |-> Nil]
      [] fn = "ascii" ->
            IF \A i \in 1 .. Len(value) : value[i] < 128
            THEN [value |-> Len(value), err |-> Nil]
            ELSE [value |-> 0, err |-> New("fn: invalid syntax")]
      [] fn = "failing" ->
            [value |-> Len(value) + 1, err |-> New("fn: value out of range")]

\* the returns of Map after fn, returning what it has in hand when fn fails
\* instead of the zero values
MapReturnKeepsPartial(inner, new) ==
    IF inner.panic THEN Panic
    ELSE IF inner.err /= Nil
    THEN Return(0, <<>>, Wrapf("Map: parser returned error: %w", inner.err))
    ELSE IF new.err /= Nil
    THEN Return(new.value, inner.remainder, Wrapf("Map: fn returned error: %w", new.err))
    ELSE Return(new.value, inner.remainder, Nil)

\* the returns of Map after fn, handing back no remainder on success
MapReturnDropsRemainder(inner, new) ==
    IF inner.panic THEN Panic
    ELSE IF inner.err /= Nil
    THEN Return(0, <<>>, Wrapf("Map: parser returned error: %w", inner.err))
    ELSE IF new.err /= Nil
    THEN Return(0, <<>>, Wrapf("Map: fn returned error: %w", new.err))
    ELSE Return(new.value, <<>>, Nil)

\* the returns of Map once the inner parser has returned inner (a panic of
\* the inner parser is a panic of Map) and fn has returned new
MapReturn(inner, new) ==
    IF inner.panic THEN Panic
    ELSE IF inner.err /= Nil
    THEN Return(0, <<>>, Wrapf("Map: parser returned error: %w", inner.err))
    ELSE IF new.err /= Nil
    THEN Return(0, <<>>, Wrapf("Map: fn returned error: %w", new.err))
    ELSE Return(new.value, inner.remainder, Nil)

\* value, remainder, err := parser(input); newValue, err := fn(value)
MapApplied(fn, inner) == MapReturn(inner, CallFn(fn, inner.value))

\* Map looking at what its parser returned before it looks at fn
MapChecksFnLast(fn, inner) ==
    IF inner.panic THEN Panic
    ELSE IF inner.err /= Nil
    THEN Return(0, <<>>, Wrapf("Map: parser returned error: %w", inner.err))
    ELSE IF fn = "nil"
    THEN Return(0, <<>>, New("Map: fn must be a non-nil function"))
    ELSE MapApplied(fn, inner)

\* Map running its parser before the check of fn
MapRunsParserFirst(p, fn, in) == MapChecksFnLast(fn, Apply(p, in))

Map(p, fn, in) ==
    IF fn = "nil"
    THEN Return(0, <<>>, New("Map: fn must be a non-nil function"))
    ELSE MapApplied(fn, Apply(p, in))

\* one call of a function value: which one, and the argument it was given
Called(callee, arg) == [callee |-> callee, arg |-> arg]

\* the calls Map makes, inner being what parser(input) returns: none when fn
\* is nil, parser(input) otherwise, and fn(value) once parser has succeeded
MapCalls(fn, in, inner) ==
    IF fn = "nil" THEN <<>>
    ELSE IF inner.panic \/ inner.err /= Nil THEN << Called("parser", in) >>
    ELSE << Called("parser", in), Called("fn", inner.value) >>

\* the parsers Map is applied to
MapInner == { TakeP(n) : n \in Counts } \cup { CharP(c) : c \in Runes }

(***************************************************************************)
(* Try, Chain and Count are not among the sources at hand (their tests and *)
(* benchmarks are): they are modelled from their specification, with the   *)
(* messages TestTry, TestChain and TestCount list.  The parsers they are   *)
(* given are primitives, run by Apply.                                     *)
(***************************************************************************)
\* the parsers handed to Try, Chain and Count, one of them with a
\* configuration its constructor rejects
Subs ==
    { TakeP(0), TakeP(1), TakeP(2), CharP(115), ExactP(<<83>>),
      TakeUntilP(Predicate({83})) }

RECURSIVE ListsOf(_)
ListsOf(k) ==
    IF k = 0 THEN { <<>> }
    ELSE { Append(l, p) : l \in ListsOf(k - 1), p \in Subs }

\* the non-empty parser lists handed to Try and Chain
ParserLists == UNION { ListsOf(k) : k \in 1 .. MaxParsers }

\* Try from parser number i on, r being what that parser returned on in:
\* "runs each parser against the same original input, in order, returning
\* the first success; if every parser fails, returns a single aggregate
\* failure"
RECURSIVE TryFrom(_, _, _)
\* Try going on after a success and returning the last parser that succeeds
TryNextKeepsLast(parsers, i, in, r) ==
    IF r.panic THEN Panic
    ELSE IF r.err = Nil /\ TryFrom(parsers, i + 1, in).err /= Nil
    THEN Return(r.value, r.remainder, Nil)
    ELSE TryFrom(parsers, i + 1, in)

TryNext(parsers, i, in, r) ==
    IF r.panic THEN Panic
    ELSE IF r.err = Nil THEN Return(r.value, r.remainder, Nil)
    ELSE TryFrom(parsers, i + 1, in)

TryFrom(parsers, i, in) ==
    IF i > Len(parsers)
    THEN Return(<<>>, <<>>, New("Try: all parsers failed"))
    ELSE TryNext(parsers, i, in, Apply(parsers[i], in))

Try(parsers, in) == TryFrom(parsers, 1, in)

\* the calls Try makes: every parser up to the first that does not fail,
\* each on the original input
RECURSIVE TryCallsFrom(_, _, _)
TryCallsNext(parsers, i, in, r) ==
    << Called("parser", in) >>
        \o (IF r.panic \/ r.err = Nil THEN << >>
            ELSE TryCallsFrom(parsers, i + 1, in))

TryCallsFrom(parsers, i, in) ==
    IF i > Len(parsers) THEN << >>
    ELSE TryCallsNext(parsers, i, in, Apply(parsers[i], in))

TryCalls(parsers, in) == TryCallsFrom(parsers, 1, in)

TryP(parsers) == [Blank EXCEPT !.op = "Try", !.parsers = parsers]

\* Chain from parser number i on, in being the text left and values what was
\* gathered so far, r what parser number i returned on in: "threading each
\* success's remainder as the next parser's input; accumulates each step's
\* value into an ordered sequence; stops at the first sub-parser failure and
\* propagates it (wrapped with context ...)"
RECURSIVE ChainFrom(_, _, _, _)
\* Chain handing back, with the failure, the values gathered before it
ChainNextKeepsPartial(parsers, i, values, r) ==
    IF r.panic THEN Panic
    ELSE IF r.err /= Nil
    THEN Return(values, <<>>, Wrapf("Chain: sub parser failed: %w", r.err))
    ELSE ChainFrom(parsers, i + 1, r.remainder, Append(values, r.value))

ChainNext(parsers, i, values, r) ==
    IF r.panic THEN Panic
    ELSE IF r.err /= Nil
    THEN Return(<<>>, <<>>, Wrapf("Chain: sub parser failed: %w", r.err))
    ELSE ChainFrom(parsers, i + 1, r.remainder, Append(values, r.value))

ChainFrom(parsers, i, in, values) ==
    IF i > Len(parsers)
    THEN Return(values, in, Nil)
    ELSE ChainNext(parsers, i, values, Apply(parsers[i], in))

Chain(parsers, in) == ChainFrom(parsers, 1, in, << >>)

\* the calls Chain makes: every parser up to the first that does not
\* succeed, each on the remainder of the one before it
RECURSIVE ChainCallsFrom(_, _, _)
ChainCallsNext(parsers, i, in, r) ==
    << Called("parser", in) >>
        \o (IF r.panic \/ r.err /= Nil THEN << >>
            ELSE ChainCallsFrom(parsers, i + 1, r.remainder))

ChainCallsFrom(parsers, i, in) ==
    IF i > Len(parsers) THEN << >>
    ELSE ChainCallsNext(parsers, i, in, Apply(parsers[i], in))

ChainCalls(parsers, in) == ChainCallsFrom(parsers, 1, in)

ChainP(parsers) == [Blank EXCEPT !.op = "Chain", !.parsers = parsers]

\* Count at application number i of n, in being the text left and values
\* what was gathered so far, r what the parser returned on in: "applies the
\* same parser exactly n times in sequence, accumulating n values; fails
\* immediately if any application fails, reporting that iteration's failure"
RECURSIVE CountFrom(_, _, _, _, _)
CountNext(p, n, i, values, r) ==
    IF r.panic THEN Panic
    ELSE IF r.err /= Nil
    THEN Return(<<>>, <<>>, Wrapf("Count: parser failed: %w", r.err))
    ELSE CountFrom(p, n, i + 1, r.remainder, Append(values, r.value))

\* Count leaving its loop one application early
CountFromStopsEarly(p, n, i, in, values) ==
    IF i >= n
    THEN Return(values, in, Nil)
    ELSE CountNext(p, n, i, values, Apply(p, in))

CountFrom(p, n, i, in, values) ==
    IF i > n
    THEN Return(values, in, Nil)
    ELSE CountNext(p, n, i, values, Apply(p, in))

Count(p, n, in) == CountFrom(p, n, 1, in, << >>)

\* the calls Count makes: the parser, on the remainder of the application
\* before, until n applications are made or one does not succeed
RECURSIVE CountCallsFrom(_, _, _, _)
CountCallsNext(p, n, i, in, r) ==
    << Called("parser", in) >>
        \o (IF r.panic \/ r.err /= Nil THEN << >>
            ELSE CountCallsFrom(p, n, i + 1, r.remainder))

CountCallsFrom(p, n, i, in) ==
    IF i > n THEN << >>
    ELSE CountCallsNext(p, n, i, in, Apply(p, in))

CountCalls(p, n, in) == CountCallsFrom(p, n, 1, in)

CountP(p, n) == [Blank EXCEPT !.op = "Count", !.n = n, !.parsers = <<p>>]

\* the counts handed to Count
Repeats == 1 .. (MaxParsers + 1)

(***************************************************************************)
(* The state machine: an input is given, one parser is built and invoked   *)
(* on it, and its three return values are recorded.                        *)
(***************************************************************************)
\* the variables of a scanning loop as declared in front of it: the byte
\* position of the range statement, the runes counted, the end the loop
\* computes, whether it was left by break, and the index and the cutOff of
\* the two loops of TakeWhileBetween
Idle ==
    [pos |-> 0, runes |-> 0, end |-> 0, broken |-> FALSE, index |-> 0 - 1,
     cutOff |-> 0]

\* the goroutines that may invoke one parser value at the same time
Runs == { "a", "b" }

\* an invocation that has not been made
NotStarted ==
    [input |-> <<>>, pc |-> "idle", loop |-> Idle,
     result |-> Return(<<>>, <<>>, Nil), overlapped |-> FALSE]

Init ==
    /\ input \in Inputs
    /\ parser = Blank
    /\ result = Return(<<>>, <<>>, Nil)
    /\ pc = "ready"
    /\ calls = <<>>
    /\ loop = Idle
    /\ invocations = [r \in Runs |-> NotStarted]

\* parser p, invoked on input, makes the calls c and returns r
Returns(p, r, c) ==
    /\ parser' = p
    /\ result' = r
    /\ calls' = c
    /\ pc' = "returned"
    /\ UNCHANGED <<input, loop, invocations>>

\* a primitive is invoked: it is given no parser and no fn to call
Invoke(p, r) == Returns(p, r, <<>>)

CallTake ==
    /\ pc = "ready"
    /\ \E n \in Counts : Invoke(TakeP(n), Take(n, input))

CallExact ==
    /\ pc = "ready"
    /\ \E match \in Args : Invoke(ExactP(match), Exact(match, input))

CallExactCaseInsensitive ==
    /\ pc = "ready"
    /\ \E match \in Args :
           Invoke(ExactCaseInsensitiveP(match), ExactCaseInsensitive(match, input))

CallChar ==
    /\ pc = "ready"
    /\ \E char \in Runes : Invoke(CharP(char), Char(char, input))

CallTakeWhile ==
    /\ pc = "ready"
    /\ \E predicate \in Predicates :
           Invoke(TakeWhileP(predicate), TakeWhile(predicate, input))

CallTakeUntil ==
    /\ pc = "ready"
    /\ \E predicate \in Predicates :
           Invoke(TakeUntilP(predicate), TakeUntil(predicate, input))

CallTakeWhileBetween ==
    /\ pc = "ready"
    /\ \E lower \in Counts, upper \in Counts, predicate \in Predicates :
           Invoke(TakeWhileBetweenP(lower, upper, predicate),
                  TakeWhileBetween(lower, upper, predicate, input))

\* the match strings handed to TakeTo: the fuzzer's strings are arbitrary
\* bytes, so besides Args a lone continuation byte, which a well-formed
\* input holds only inside a char
Matches == Args \cup { <<191>> }

CallTakeTo ==
    /\ pc = "ready"
    /\ \E match \in Matches : Invoke(TakeToP(match), TakeTo(match, input))

CallOneOf ==
    /\ pc = "ready"
    /\ \E chars \in Args : Invoke(OneOfP(chars), OneOf(chars, input))

CallNoneOf ==
    /\ pc = "ready"
    /\ \E chars \in Args : Invoke(NoneOfP(chars), NoneOf(chars, input))

CallAnyOf ==
    /\ pc = "ready"
    /\ \E chars \in Args : Invoke(AnyOfP(chars), AnyOf(chars, input))

CallNotAnyOf ==
    /\ pc = "ready"
    /\ \E chars \in Args : Invoke(NotAnyOfP(chars), NotAnyOf(chars, input))

CallOptional ==
    /\ pc = "ready"
    /\ \E match \in Args : Invoke(OptionalP(match), Optional(match, input))

CallTry ==
    /\ pc = "ready"
    /\ \E parsers \in ParserLists :
           Returns(TryP(parsers), Try(parsers, input), TryCalls(parsers, input))

CallChain ==
    /\ pc = "ready"
    /\ \E parsers \in ParserLists :
           Returns(ChainP(parsers), Chain(parsers, input),
                   ChainCalls(parsers, input))

CallCount ==
    /\ pc = "ready"
    /\ \E p \in Subs, n \in Repeats :
           Returns(CountP(p, n), Count(p, n, input), CountCalls(p, n, input))

CallMap ==
    /\ pc = "ready"
    /\ \E p \in MapInner, fn \in Fns :
           Returns([p EXCEPT !.op = "Map", !.fn = fn], Map(p, fn, input),
                   MapCalls(fn, input, Apply(p, input)))

Next ==
    \/ CallTake
    \/ CallExact
    \/ CallExactCaseInsensitive
    \/ CallChar
    \/ CallTakeWhile
    \/ CallTakeUntil
    \/ CallTakeWhileBetween
    \/ CallTakeTo
    \/ CallOneOf
    \/ CallNoneOf
    \/ CallAnyOf
    \/ CallNotAnyOf
    \/ CallOptional
    \/ CallMap
    \/ CallTry
    \/ CallChain
    \/ CallCount

Spec == Init /\ [][Next]_vars

(***************************************************************************)
(* The scanning loops, one iteration per step.  An invocation of a         *)
(* primitive with a loop runs its checks, enters the loop (pc = "loop"),   *)
(* iterates until a break or the end of the input, runs the code after    *)
(* the loop (pc = "after") and returns; TakeWhileBetween may enter its     *)
(* second loop (pc = "cut") first.  The primitives without a loop of       *)
(* their own return in one step.                                           *)
(***************************************************************************)
\* the upper limits TakeWhileBetween is given in the stepped loops
Uppers == 0 .. MaxArgChunks

\* the predicates of the stepped loops: nil, constantly false, true of
\* some runes only, constantly true
ScanPredicates ==
    { NilPredicate, Predicate({}), Predicate({ 115, 383 }), Predicate(Runes) }

ScanParsers ==
    { TakeP(n) : n \in Counts }
    \cup { TakeWhileP(f) : f \in ScanPredicates }
    \cup { TakeUntilP(f) : f \in ScanPredicates }
    \cup { TakeWhileBetweenP(l, u, f) : l \in 0 .. 1, u \in Uppers, f \in ScanPredicates }
    \cup { AnyOfP(c) : c \in Chunks \cup { <<>> } }
    \cup { NotAnyOfP(c) : c \in Chunks \cup { <<>> } }

\* the primitives without a loop of their own
StraightParsers ==
    { ExactP(m) : m \in Chunks \cup { <<>> } }
    \cup { ExactCaseInsensitiveP(m) : m \in Chunks \cup { <<>> } }
    \cup { TakeToP(m) : m \in Chunks \cup { <<>> } }
    \cup { CharP(r) : r \in Runes }
    \cup { OneOfP(c) : c \in Chunks \cup { <<>> } }
    \cup { NoneOfP(c) : c \in Chunks \cup { <<>> } }

\* the checks in front of the loop all pass
PassesChecks(p, in) ==
    CASE p.op = "Take" -> p.n > 0 /\ in /= <<>> /\ ValidString(in)
      [] p.op \in { "TakeWhile", "TakeUntil" } ->
            in /= <<>> /\ ValidString(in) /\ ~p.predicate.nil
      [] p.op = "TakeWhileBetween" ->
            /\ in /= <<>>
            /\ ValidString(in)
            /\ ~p.predicate.nil
            /\ p.lower >= 0
            /\ p.lower <= p.upper
            /\ IndexFuncFound(in, p.predicate)
      [] p.op \in { "AnyOf", "NotAnyOf" } ->
            in /= <<>> /\ p.chars /= <<>> /\ ValidString(in)

\* the body of the loop on (pos, char): the variables it assigns and
\* whether it leaves the loop by break
Body(p, l, pos, char) ==
    CASE p.op = "Take" ->
            IF l.runes + 1 = p.n
            THEN [l |-> [l EXCEPT !.runes = l.runes + 1,
                                  !.end = pos + RuneLen(char)],
                  break |-> TRUE]
            ELSE [l |-> [l EXCEPT !.runes = l.runes + 1], break |-> FALSE]
      [] p.op = "TakeWhile" ->
            IF ~Holds(p.predicate, char)
            THEN [l |-> [l EXCEPT !.end = pos, !.broken = TRUE], break |-> TRUE]
            ELSE [l |-> [l EXCEPT !.end = pos], break |-> FALSE]
      [] p.op = "TakeUntil" ->
            IF Holds(p.predicate, char)
            THEN [l |-> [l EXCEPT !.end = pos, !.broken = TRUE], break |-> TRUE]
            ELSE [l |-> [l EXCEPT !.end = pos], break |-> FALSE]
      [] p.op = "TakeWhileBetween" ->
            IF ~Holds(p.predicate, char)
            THEN [l |-> l, break |-> TRUE]
            ELSE [l |-> [l EXCEPT !.index = pos + RuneLen(char)], break |-> FALSE]
      [] p.op = "AnyOf" ->
            IF ~ContainsRune(p.chars, char)
            THEN [l |-> [l EXCEPT !.end = pos], break |-> TRUE]
            ELSE [l |-> l, break |-> FALSE]
      [] p.op = "NotAnyOf" ->
            IF ContainsRune(p.chars, char)
            THEN [l |-> [l EXCEPT !.end = pos], break |-> TRUE]
            ELSE [l |-> l, break |-> FALSE]

\* the range statement staying on a one-byte char
AdvanceStalls(pos, d) == pos + d.width - 1

\* the range statement moves to the byte after the char it decoded
Advance(pos, d) == pos + d.width

\* n > upper after the first loop of TakeWhileBetween: the second loop runs
EntersCut(p, l, in) ==
    /\ p.op = "TakeWhileBetween"
    /\ SliceOk(in, 0, l.index)
    /\ RuneCountInString(Slice(in, 0, l.index)) >= p.lower
    /\ RuneCountInString(Slice(in, 0, l.index)) > p.upper

\* the code after the loop, from the variables the loop left
After(p, l, in) ==
    CASE p.op = "Take" ->
            IF l.runes < p.n
            THEN Return(<<>>, <<>>,
                    Errorf("Take: requested n (%d) chars but input had only %d utf-8 chars",
                           <<p.n, l.runes>>, <<>>))
            ELSE Cut(in, l.end)
      [] p.op = "TakeWhile" ->
            IF ~l.broken
            THEN Return(<<>>, <<>>, New("TakeWhile: predicate never returned false"))
            ELSE Cut(in, l.end)
      [] p.op = "TakeUntil" ->
            IF ~l.broken
            THEN Return(<<>>, <<>>, New("TakeUntil: predicate never returned true"))
            ELSE Cut(in, l.end)
      [] p.op = "TakeWhileBetween" ->
            IF ~SliceOk(in, 0, l.index)
            THEN Panic
            ELSE IF RuneCountInString(Slice(in, 0, l.index)) < p.lower
            THEN Return(<<>>, <<>>,
                    Errorf("TakeWhileBetween: predicate matched only %d chars (%s), below lower limit (%d)",
                           <<RuneCountInString(Slice(in, 0, l.index)), p.lower>>,
                           <<Slice(in, 0, l.index)>>))
            ELSE Cut(in, l.index)
      [] p.op = "AnyOf" ->
            IF l.end = 0
            THEN Return(<<>>, <<>>,
                    Errorf("AnyOf: no match for any char in (%s) found in input",
                           <<>>, <<p.chars>>))
            ELSE Cut(in, l.end)
      [] p.op = "NotAnyOf" ->
            IF l.end = 0
            THEN Return(<<>>, <<>>,
                    Errorf("NotAnyOf: match found for char in (%s)", <<>>, <<p.chars>>))
            ELSE Cut(in, l.end)

\* a check in front of the loop fails: the closure returns that failure
ScanReject ==
    /\ pc = "ready"
    /\ \E p \in ScanParsers :
           /\ ~PassesChecks(p, input)
           /\ Invoke(p, Apply(p, input))

\* the checks pass: the loop's variables are declared and the loop entered
ScanEnter ==
    /\ pc = "ready"
    /\ \E p \in ScanParsers :
           /\ PassesChecks(p, input)
           /\ parser' = p
           /\ loop' = Idle
           /\ pc' = "loop"
           /\ UNCHANGED <<input, result, calls, invocations>>

\* one iteration of the loop over input
ScanIterate ==
    /\ pc = "loop"
    /\ loop.pos < Len(input)
    /\ LET d == DecodeAt(input, loop.pos)
           b == Body(parser, loop, loop.pos, d.r)
       IN  IF b.break
           THEN loop' = b.l /\ pc' = "after"
           ELSE loop' = [b.l EXCEPT !.pos = Advance(loop.pos, d)] /\ pc' = "loop"
    /\ UNCHANGED <<input, parser, result, calls, invocations>>

\* the range statement finds no char left
ScanExhaust ==
    /\ pc = "loop"
    /\ loop.pos >= Len(input)
    /\ pc' = "after"
    /\ UNCHANGED <<input, parser, result, calls, loop, invocations>>

\* the code after the loop returns
ScanFinish ==
    /\ pc = "after"
    /\ ~EntersCut(parser, loop, input)
    /\ result' = After(parser, loop, input)
    /\ pc' = "returned"
    /\ UNCHANGED <<input, parser, calls, loop, invocations>>

\* TakeWhileBetween enters its second loop, over startToIndex
ScanCut ==
    /\ pc = "after"
    /\ EntersCut(parser, loop, input)
    /\ loop' = [loop EXCEPT !.pos = 0, !.runes = 0, !.cutOff = 0]
    /\ pc' = "cut"
    /\ UNCHANGED <<input, parser, result, calls, invocations>>

\* one iteration of the second loop of TakeWhileBetween
ScanCutIterate ==
    /\ pc = "cut"
    /\ loop.pos < loop.index
    /\ LET d == DecodeAt(Slice(input, 0, loop.index), loop.pos)
       IN  loop' = [loop EXCEPT
                       !.runes = loop.runes + 1,
                       !.cutOff = IF loop.runes + 1 = parser.upper
                                  THEN loop.pos + RuneLen(d.r)
                                  ELSE loop.cutOff,
                       !.pos = Advance(loop.pos, d)]
    /\ UNCHANGED <<input, parser, result, calls, pc, invocations>>

\* the second loop has ranged over all of startToIndex
ScanCutDone ==
    /\ pc = "cut"
    /\ loop.pos >= loop.index
    /\ result' = Cut(input, loop.cutOff)
    /\ pc' = "returned"
    /\ UNCHANGED <<input, parser, calls, loop, invocations>>

\* a primitive without a loop of its own runs to its return
ScanStraight ==
    /\ pc = "ready"
    /\ \E p \in StraightParsers : Invoke(p, Apply(p, input))

ScanNext ==
    \/ ScanReject
    \/ ScanEnter
    \/ ScanIterate
    \/ ScanExhaust
    \/ ScanFinish
    \/ ScanCut
    \/ ScanCutIterate
    \/ ScanCutDone
    \/ ScanStraight

\* an invocation that has started is run to its return: the closure is
\* straight-line code the goroutine calling it keeps executing
ScanSpec == Init /\ [][ScanNext]_vars /\ WF_vars(ScanNext)

(***************************************************************************)
(* Concurrent invocations.  One parser value is constructed and then       *)
(* invoked by every goroutine of Runs, each on its own input; the steps    *)
(* of the invocations interleave freely.  What the closure captured (the   *)
(* arguments of the constructor, in parser) is read by all of them; the    *)
(* variables declared inside the closure belong to the invocation.         *)
(***************************************************************************)
RaceParsers ==
    { TakeP(2), TakeWhileP(Predicate({ 115, 383 })), TakeUntilP(Predicate({ 83 })),
      TakeWhileBetweenP(0, 1, Predicate({ 115, 83, 383 })), AnyOfP(<<115>>),
      NotAnyOfP(<<83>>), CharP(115) }

\* the inputs the goroutines pass: the input, or what follows its first char
RaceInputs(in) ==
    { in } \cup { Slice(in, DecodeAt(in, 0).width, Len(in)) }

HasLoop(p) ==
    p.op \in { "Take", "TakeWhile", "TakeUntil", "TakeWhileBetween", "AnyOf", "NotAnyOf" }

InFlight(st) == st.pc \in { "call", "loop", "after", "cut" }

\* the loop variables as if declared once in the constructor: every
\* invocation reads those of the first goroutine
LocalsShared(all, r) == all["a"].loop

\* the loop variables invocation r reads: its own, declared in the closure
Locals(all, r) == all[r].loop

\* the next step of an invocation st of parser p that reads the loop
\* variables l
StepOf(p, st, l) ==
    CASE st.pc = "call" ->
            IF HasLoop(p) /\ PassesChecks(p, st.input)
            THEN [st EXCEPT !.pc = "loop", !.loop = Idle]
            ELSE [st EXCEPT !.pc = "returned", !.result = Apply(p, st.input)]
      [] st.pc = "loop" ->
            IF l.pos >= Len(st.input)
            THEN [st EXCEPT !.pc = "after", !.loop = l]
            ELSE LET d == DecodeAt(st.input, l.pos)
                     b == Body(p, l, l.pos, d.r)
                 IN  IF b.break
                     THEN [st EXCEPT !.pc = "after", !.loop = b.l]
                     ELSE [st EXCEPT !.loop = [b.l EXCEPT !.pos = Advance(l.pos, d)]]
      [] st.pc = "after" ->
            IF EntersCut(p, l, st.input)
            THEN [st EXCEPT !.pc = "cut",
                            !.loop = [l EXCEPT !.pos = 0, !.runes = 0, !.cutOff = 0]]
            ELSE [st EXCEPT !.pc = "returned", !.loop = l,
                            !.result = After(p, l, st.input)]
      [] st.pc = "cut" ->
            IF l.pos >= l.index
            THEN [st EXCEPT !.pc = "returned", !.loop = l,
                            !.result = Cut(st.input, l.cutOff)]
            \* startToIndex ends where a char ends: decoding in it and in the
            \* input agree
            ELSE LET d == DecodeAt(st.input, l.pos)
                 IN  [st EXCEPT !.loop =
                         [l EXCEPT !.runes = l.runes + 1,
                                   !.cutOff = IF l.runes + 1 = p.upper
                                              THEN l.pos + RuneLen(d.r)
                                              ELSE l.cutOff,
                                   !.pos = Advance(l.pos, d)]]

\* the parser value is constructed
RaceConstruct ==
    /\ pc = "ready"
    /\ \E p \in RaceParsers :
           /\ parser' = p
           /\ pc' = "shared"
    /\ UNCHANGED <<input, result, calls, loop, invocations>>

\* goroutine r calls the parser value
RaceInvoke(r) ==
    /\ pc = "shared"
    /\ invocations[r].pc = "idle"
    /\ \E in \in RaceInputs(input) :
           invocations' =
               [invocations EXCEPT ![r] = [NotStarted EXCEPT !.input = in, !.pc = "call"]]
    /\ UNCHANGED <<input, parser, result, pc, calls, loop>>

\* goroutine r runs one step of its invocation
RaceStep(r) ==
    /\ InFlight(invocations[r])
    /\ invocations' =
           [invocations EXCEPT ![r] =
               [StepOf(parser, invocations[r], Locals(invocations, r)) EXCEPT
                   !.overlapped = invocations[r].overlapped
                       \/ \E o \in Runs \ { r } : InFlight(invocations[o])]]
    /\ UNCHANGED <<input, parser, result, pc, calls, loop>>

RaceNext ==
    \/ RaceConstruct
    \/ \E r \in Runs : RaceInvoke(r)
    \/ \E r \in Runs : RaceStep(r)

RaceSpec == Init /\ [][RaceNext]_vars

(***************************************************************************)
(* The vocabulary of the properties.  Well-formedness and code points are  *)
(* stated here from the encodings of the chars themselves, not through     *)
(* the decoder the parsers use.                                            *)
(***************************************************************************)
Primitives ==
    { "Take", "Exact", "ExactCaseInsensitive", "Char", "TakeWhile", "TakeUntil",
      "TakeWhileBetween", "TakeTo", "OneOf", "NoneOf", "AnyOf", "NotAnyOf" }

Returned == pc = "returned"

Succeeded == Returned /\ ~result.panic /\ result.err = Nil

Failed == Returned /\ ~result.panic /\ result.err /= Nil

\* the well-formed encodings of one char
ValidChars == { EncodeRune(r) : r \in Runes }

\* s begins with the bytes of t
StartsWith(s, t) == Len(t) <= Len(s) /\ SubSeq(s, 1, Len(t)) = t

\* s without its first k bytes
Drop(s, k) == SubSeq(s, k + 1, Len(s))

\* s is a concatenation of well-formed chars
RECURSIVE WellFormed(_)
WellFormed(s) ==
    \/ s = <<>>
    \/ \E c \in ValidChars : StartsWith(s, c) /\ WellFormed(Drop(s, Len(c)))

\* the code points of a well-formed string, in order
RECURSIVE CodePoints(_)
CodePoints(s) ==
    IF s = <<>> THEN <<>>
    ELSE LET c == CHOOSE c \in ValidChars : StartsWith(s, c)
         IN  <<CHOOSE r \in Runes : EncodeRune(r) = c>> \o CodePoints(Drop(s, Len(c)))

\* the number of bytes the first k code points of a well-formed string occupy
RECURSIVE BytesOf(_, _)
BytesOf(s, k) ==
    IF k = 0 THEN 0
    ELSE LET c == CHOOSE c \in ValidChars : StartsWith(s, c)
         IN  Len(c) + BytesOf(Drop(s, Len(c)), k - 1)

\* the result is success with the first k bytes of the input as value
CutsAt(k) ==
    /\ Succeeded
    /\ result.value = SubSeq(input, 1, k)
    /\ result.remainder = Drop(input, k)

\* the configuration the parser was built with is one its constructor rejects
ConfigInvalid ==
    CASE parser.op = "Take" -> parser.n <= 0
      [] parser.op \in { "Exact", "ExactCaseInsensitive", "TakeTo" } -> parser.match = <<>>
      [] parser.op \in { "TakeWhile", "TakeUntil" } -> parser.predicate.nil
      [] parser.op = "TakeWhileBetween" ->
            parser.predicate.nil \/ parser.lower < 0 \/ parser.lower > parser.upper
      [] parser.op \in { "OneOf", "NoneOf", "AnyOf", "NotAnyOf" } -> parser.chars = <<>>
      [] OTHER -> FALSE

\* the failure is the one with this single message
Reports(msg) == Failed /\ result.err.msgs = <<msg>>

InvalidUtf8 == Reports(parser.op \o ": input not valid utf-8")

(***************************************************************************)
(* C1  Whenever a primitive returns success, the bytes of value followed   *)
(* by the bytes of remainder are exactly the bytes of the input.           *)
(***************************************************************************)
C1_Reconstruction ==
    (Succeeded /\ parser.op \in Primitives)
        => result.value \o result.remainder = input

\* a success of ExactCaseInsensitive on an input cased differently from the match
C1_Witness ==
    /\ Succeeded
    /\ parser.op = "ExactCaseInsensitive"
    /\ result.value /= parser.match
    /\ result.remainder /= <<>>

(***************************************************************************)
(* C2  Whenever a primitive or Map returns a failure, the value is the     *)
(* zero value of its type ("" for a primitive, 0 for Map to int) and the   *)
(* remainder is "".                                                        *)
(***************************************************************************)
C2_AllOrNothing ==
    Failed =>
        /\ result.remainder = <<>>
        /\ IF parser.op = "Map" THEN result.value = 0 ELSE result.value = <<>>

\* Map fails in fn after its inner parser consumed text, fn handing back a
\* non-zero value with its error
C2_Witness ==
    /\ Failed
    /\ parser.op = "Map"
    /\ parser.fn = "failing"
    /\ result.err.msgs[1] = "Map: fn returned error: %w"

(***************************************************************************)
(* C3  Every primitive returns normally, with a success or a failure, for  *)
(* every input and every configuration: no invocation panics.              *)
(***************************************************************************)
C3_Totality ==
    (Returned /\ parser.op \in Primitives) => ~result.panic

(***************************************************************************)
(* C4  For every primitive with a valid configuration, a non-empty input   *)
(* that is not well-formed UTF-8 yields the failure 'input not valid       *)
(* utf-8', wherever the ill-formed bytes are.                              *)
(***************************************************************************)
C4_Utf8Gate ==
    (/\ Returned
     /\ parser.op \in Primitives
     /\ ~ConfigInvalid
     /\ input /= <<>>
     /\ ~WellFormed(input))
        => InvalidUtf8

(***************************************************************************)
(* C5  On success of a primitive both value and remainder are well-formed  *)
(* UTF-8: the cut is at a code-point boundary of the input, for every      *)
(* match string of Exact and ExactCaseInsensitive, whatever its bytes.     *)
(* Stated for the well-formed inputs, where no success depends on how an   *)
(* ill-formed input was let through.                                       *)
(***************************************************************************)
C5_CodePointBoundaries ==
    (Succeeded /\ parser.op \in Primitives /\ WellFormed(input))
        => WellFormed(result.value) /\ WellFormed(result.remainder)

(***************************************************************************)
(* The failure conditions a priority is stated over, and the failure each  *)
(* is reported as.                                                         *)
(***************************************************************************)
\* the failure reported for an empty input
EmptyInputMsg ==
    CASE parser.op = "Take" -> "Take: cannot take from empty input"
      [] parser.op \in { "Exact", "ExactCaseInsensitive" } ->
            parser.op \o ": cannot match on empty input"
      [] OTHER -> parser.op \o ": input text is empty"

\* the failures that report an invalid configuration, in the order
\* TakeWhileBetween checks its three
ConfigErrs ==
    CASE parser.op = "Take" ->
            << Errorf("Take: n must be a non-zero positive integer, got %d",
                      <<parser.n>>, <<>>) >>
      [] parser.op \in { "Exact", "ExactCaseInsensitive", "TakeTo" } ->
            << New(parser.op \o ": match must not be empty") >>
      [] parser.op \in { "TakeWhile", "TakeUntil" } ->
            << New(parser.op \o ": predicate must be a non-nil function") >>
      [] parser.op = "TakeWhileBetween" ->
            (IF parser.predicate.nil
             THEN << New("TakeWhileBetween: predicate must be a non-nil function") >>
             ELSE <<>>)
            \o (IF parser.lower < 0
                THEN << Errorf("TakeWhileBetween: lower limit (%d) not allowed, must be positive integer",
                               <<parser.lower>>, <<>>) >>
                ELSE <<>>)
            \o (IF parser.lower > parser.upper
                THEN << Errorf("TakeWhileBetween: invalid range, lower (%d) must be < upper (%d)",
                               <<parser.lower, parser.upper>>, <<>>) >>
                ELSE <<>>)
      [] parser.op \in { "OneOf", "NoneOf", "AnyOf", "NotAnyOf" } ->
            << New(parser.op \o ": chars must not be empty") >>
      [] OTHER -> <<>>

\* the input does not begin with a well-formed char other than U+FFFD
FirstCharIsRuneError ==
    ~\E c \in ValidChars \ { EncodeRune(RuneError) } : StartsWith(input, c)

\* condition cond holds of the invocation
Holding(cond) ==
    CASE cond = "config" -> ConfigInvalid
      [] cond = "empty" -> input = <<>>
      [] cond = "utf8" -> ~WellFormed(input)
      [] cond = "first" -> FirstCharIsRuneError

\* the invocation failed with the failure of condition cond
ReportsCond(cond) ==
    CASE cond = "config" -> Failed /\ result.err = ConfigErrs[1]
      [] cond = "empty" -> Reports(EmptyInputMsg)
      [] cond \in { "utf8", "first" } -> InvalidUtf8

\* the order in which each primitive checks its conditions
CheckOrder ==
    CASE parser.op = "Take" -> << "config", "empty", "utf8" >>
      [] parser.op \in { "Exact", "ExactCaseInsensitive", "TakeTo", "TakeWhile",
                         "TakeUntil", "TakeWhileBetween" } ->
            << "empty", "utf8", "config" >>
      [] parser.op \in { "AnyOf", "NotAnyOf" } -> << "empty", "config", "utf8" >>
      [] parser.op \in { "OneOf", "NoneOf" } -> << "empty", "config", "first" >>
      [] parser.op = "Char" -> << "empty", "first" >>

(***************************************************************************)
(* C6 (as claimed)  Invalid configuration has the first rank of the fixed  *)
(* priority: a primitive built with an invalid configuration reports the   *)
(* configuration failure whatever else holds of the input.                 *)
(***************************************************************************)
C6_ConfigurationFirst ==
    (Returned /\ parser.op \in Primitives /\ ConfigInvalid)
        => (Failed /\ \E i \in 1 .. Len(ConfigErrs) : result.err = ConfigErrs[i])

(***************************************************************************)
(* C6 (amended)  Each primitive reports the first condition that holds in  *)
(* a fixed order of its own: Take checks n, then empty input, then         *)
(* ill-formed UTF-8; Exact, ExactCaseInsensitive, TakeTo, TakeWhile,       *)
(* TakeUntil and TakeWhileBetween check empty input, then ill-formed       *)
(* UTF-8, then the configuration (nil predicate, lower < 0, lower > upper  *)
(* in that order); AnyOf and NotAnyOf check empty input, then the empty    *)
(* charset, then ill-formed UTF-8; OneOf and NoneOf check empty input,     *)
(* then the empty charset, then whether the first char decodes to U+FFFD;  *)
(* Char checks empty input, then whether the first char decodes to U+FFFD. *)
(* The match-specific condition is reported only when none of these holds. *)
(***************************************************************************)
C6_PriorityAsChecked ==
    (Returned /\ parser.op \in Primitives) =>
        LET holding == { i \in 1 .. Len(CheckOrder) : Holding(CheckOrder[i]) }
            first   == CHOOSE i \in holding : \A o \in holding : i <= o
        IN  holding /= {} => ReportsCond(CheckOrder[first])

\* an empty match on an ill-formed input: two conditions hold at once
C6_Witness ==
    /\ Returned
    /\ parser.op = "Exact"
    /\ parser.match = <<>>
    /\ input /= <<>>
    /\ ~WellFormed(input)
    /\ InvalidUtf8

(***************************************************************************)
(* C7  Take(n) on a well-formed input of c code points succeeds iff        *)
(* 0 < n <= c; on success value is the first n code points and remainder   *)
(* the rest; when c >= 1 and n > c the failure states n and c.             *)
(***************************************************************************)
C7_Take ==
    (Returned /\ parser.op = "Take" /\ WellFormed(input)) =>
        LET n == parser.n
            c == Len(CodePoints(input))
        IN  /\ ~result.panic
            /\ Succeeded <=> (0 < n /\ n <= c)
            /\ Succeeded => CutsAt(BytesOf(input, n))
            /\ (c >= 1 /\ n > c) =>
                  result.err =
                    Errorf("Take: requested n (%d) chars but input had only %d utf-8 chars",
                           <<n, c>>, <<>>)

\* two code points taken, more bytes than code points, something left
C7_Witness ==
    /\ Succeeded
    /\ parser.op = "Take"
    /\ parser.n = 2
    /\ Len(result.value) > 2
    /\ result.remainder /= <<>>

(***************************************************************************)
(* C8  Exact(match), for a non-empty match and a non-empty well-formed     *)
(* input, succeeds iff the input begins with match byte for byte; on       *)
(* success value is match and remainder the input without that prefix.     *)
(***************************************************************************)
C8_Exact ==
    (/\ Returned
     /\ parser.op = "Exact"
     /\ parser.match /= <<>>
     /\ input /= <<>>
     /\ WellFormed(input)) =>
        /\ ~result.panic
        /\ Succeeded <=> StartsWith(input, parser.match)
        /\ Succeeded =>
              /\ result.value = parser.match
              /\ result.remainder = Drop(input, Len(parser.match))

\* the match occurs in the input, but only at a later offset: a failure
C8_Witness ==
    /\ Failed
    /\ parser.op = "Exact"
    /\ WellFormed(input)
    /\ parser.match /= <<>>
    /\ ~StartsWith(input, parser.match)
    /\ \E k \in 1 .. Len(input) : StartsWith(Drop(input, k), parser.match)

(***************************************************************************)
(* C9  ExactCaseInsensitive(match), for a non-empty match and a non-empty  *)
(* well-formed input, succeeds iff some prefix of the input equals match   *)
(* under Unicode case folding, whatever the byte lengths of the case       *)
(* variants; on success value is that prefix of the input and remainder    *)
(* the rest.                                                               *)
(***************************************************************************)
C9_ExactCaseInsensitive ==
    (/\ Returned
     /\ parser.op = "ExactCaseInsensitive"
     /\ parser.match /= <<>>
     /\ input /= <<>>
     /\ WellFormed(input)) =>
        LET folds == { k \in 1 .. Len(input) :
                          EqualFold(SubSeq(input, 1, k), parser.match) }
        IN  /\ ~result.panic
            /\ Succeeded <=> folds /= {}
            /\ Succeeded => \E k \in folds : CutsAt(k)

C10_WitnessEmptyValue ==
    /\ Succeeded
    /\ parser.op = "TakeWhile"
    /\ result.value = <<>>
    /\ \E i \in 1 .. Len(CodePoints(input)) :
           CodePoints(input)[i] \in parser.predicate.true

\* the chars of s the predicate is true of, and those it is false of
TrueOn(s) ==
    { i \in 1 .. Len(CodePoints(s)) : CodePoints(s)[i] \in parser.predicate.true }

FalseOn(s) ==
    { i \in 1 .. Len(CodePoints(s)) : CodePoints(s)[i] \notin parser.predicate.true }

\* a call of op with a non-nil predicate on a non-empty well-formed input
ScansInput(op) ==
    /\ Returned
    /\ parser.op = op
    /\ ~parser.predicate.nil
    /\ input /= <<>>
    /\ WellFormed(input)

ConsumedAll == Succeeded /\ result.value = input /\ result.remainder = <<>>

(***************************************************************************)
(* C12  As asserted by TestTakeWhile and TestTakeUntil: TakeWhile applied  *)
(* to an input on which the predicate is true for every char succeeds with *)
(* value the entire input and an empty remainder, and fails ('predicate    *)
(* never returned true') when the predicate is false for every char;       *)
(* TakeUntil succeeds with the entire input as value when the predicate is *)
(* never true, and fails ('predicate never returned false') when the       *)
(* predicate is true for every char.                                       *)
(***************************************************************************)
C12_AsTested ==
    /\ (ScansInput("TakeWhile") /\ FalseOn(input) = {}) => ConsumedAll
    /\ (ScansInput("TakeWhile") /\ TrueOn(input) = {}) =>
           Reports("TakeWhile: predicate never returned true")
    /\ (ScansInput("TakeUntil") /\ TrueOn(input) = {}) => ConsumedAll
    /\ (ScansInput("TakeUntil") /\ FalseOn(input) = {}) =>
           Reports("TakeUntil: predicate never returned false")

\* the number of leading chars of s the predicate is true of
LeadingRun(s) ==
    LET chars == CodePoints(s)
        runs  == { k \in 0 .. Len(chars) :
                      \A i \in 1 .. k : chars[i] \in parser.predicate.true }
    IN  CHOOSE k \in runs : \A o \in runs : o <= k

Min(a, b) == IF a <= b THEN a ELSE b

(***************************************************************************)
(* C13  TakeWhileBetween(lower, upper, pred) with 0 <= lower <= upper on a *)
(* well-formed input whose leading pred-true run has r code points, r >= 1 *)
(* and r >= lower, succeeds with value the first min(r, upper) code points *)
(* of the input and remainder the rest; the number k of chars consumed     *)
(* satisfies lower <= k <= upper, and a run longer than upper is truncated *)
(* to exactly upper chars.                                                 *)
(***************************************************************************)
C13_TakeWhileBetween ==
    (/\ ScansInput("TakeWhileBetween")
     /\ 0 <= parser.lower
     /\ parser.lower <= parser.upper
     /\ LeadingRun(input) >= 1
     /\ LeadingRun(input) >= parser.lower) =>
        LET k == Min(LeadingRun(input), parser.upper)
        IN  /\ CutsAt(BytesOf(input, k))
            /\ Len(CodePoints(result.value)) = k
            /\ parser.lower <= k
            /\ k <= parser.upper

\* a run of three chars, one of them multi-byte, truncated to upper = 2
C13_Witness ==
    /\ ScansInput("TakeWhileBetween")
    /\ Succeeded
    /\ parser.lower >= 1
    /\ parser.upper = 2
    /\ LeadingRun(input) = 3
    /\ Len(CodePoints(result.value)) = 2
    /\ Len(result.value) = 3

(***************************************************************************)
(* C14  TakeWhileBetween returns the below-lower-limit failure, reporting  *)
(* the number of chars matched, whenever the leading pred-true run has     *)
(* fewer than lower chars.  This includes a leading run of 0 chars: when   *)
(* the first char does not satisfy the predicate but some later char does, *)
(* and lower > 0, the result is the failure 'predicate matched only 0      *)
(* chars (), below lower limit (lower)'.                                   *)
(***************************************************************************)
C14_BelowLowerLimit ==
    (/\ ScansInput("TakeWhileBetween")
     /\ 0 <= parser.lower
     /\ parser.lower <= parser.upper
     /\ TrueOn(input) /= {}
     /\ LeadingRun(input) < parser.lower) =>
        /\ Failed
        /\ result.err =
              Errorf("TakeWhileBetween: predicate matched only %d chars (%s), below lower limit (%d)",
                     <<LeadingRun(input), parser.lower>>,
                     <<SubSeq(input, 1, BytesOf(input, LeadingRun(input)))>>)

\* the byte offsets at which match occurs in the input
Occurrences ==
    { k \in 0 .. Len(input) : StartsWith(Drop(input, k), parser.match) }

(***************************************************************************)
(* C15  TakeTo(match), for a non-empty match and a non-empty well-formed   *)
(* input, succeeds iff match occurs somewhere in the input; on success     *)
(* value is everything before the leftmost occurrence of match, no         *)
(* occurrence of match ends inside value, and remainder begins with match, *)
(* so that Exact(match) applied to that remainder succeeds.  A match at    *)
(* offset 0 gives an empty value and the whole input as remainder.         *)
(***************************************************************************)
C15_TakeTo ==
    (/\ Returned
     /\ parser.op = "TakeTo"
     /\ parser.match /= <<>>
     /\ input /= <<>>
     /\ WellFormed(input)) =>
        /\ ~result.panic
        /\ Succeeded <=> Occurrences /= {}
        /\ Succeeded =>
              /\ \E k \in Occurrences :
                    /\ \A o \in Occurrences : k <= o
                    /\ CutsAt(k)
                    /\ k = 0 => (result.value = <<>> /\ result.remainder = input)
              /\ StartsWith(result.remainder, parser.match)
              /\ Exact(parser.match, result.remainder) =
                    Return(parser.match,
                           Drop(result.remainder, Len(parser.match)), Nil)

\* a call of op with a non-empty well-formed charset on a non-empty
\* well-formed input
MatchesCharset(op) ==
    /\ Returned
    /\ parser.op = op
    /\ parser.chars /= <<>>
    /\ WellFormed(parser.chars)
    /\ input /= <<>>
    /\ WellFormed(input)

\* char number i of the input is one of the chars of the charset
InCharset(i) ==
    \E j \in 1 .. Len(CodePoints(parser.chars)) :
        CodePoints(parser.chars)[j] = CodePoints(input)[i]

\* the number of leading chars of the input that are all in the charset
\* (member = TRUE) or all outside it (member = FALSE)
CharsetRun(member) ==
    LET runs == { k \in 0 .. Len(CodePoints(input)) :
                     \A i \in 1 .. k : InCharset(i) = member }
    IN  CHOOSE k \in runs : \A o \in runs : o <= k

(***************************************************************************)
(* C16  AnyOf(charset), for a non-empty charset and a non-empty            *)
(* well-formed input, succeeds iff the first char of the input is in       *)
(* charset; on success value is the maximal leading run of chars that are  *)
(* all in charset (up to and excluding the first char not in charset, or   *)
(* the whole input when every char is in charset) and remainder is the     *)
(* rest.  It never succeeds with an empty value.                           *)
(***************************************************************************)
C16_AnyOf ==
    MatchesCharset("AnyOf") =>
        /\ ~result.panic
        /\ Succeeded <=> InCharset(1)
        /\ Succeeded => CutsAt(BytesOf(input, CharsetRun(TRUE)))
        /\ Succeeded => result.value /= <<>>

(***************************************************************************)
(* C17  NotAnyOf(charset), for a non-empty charset and a non-empty         *)
(* well-formed input, succeeds iff the first char of the input is not in   *)
(* charset; on success value is the maximal leading run of chars none of   *)
(* which is in charset (up to and excluding the first char in charset, or  *)
(* the whole input when no char is in charset) and remainder is the rest.  *)
(***************************************************************************)
C17_NotAnyOf ==
    MatchesCharset("NotAnyOf") =>
        /\ ~result.panic
        /\ Succeeded <=> ~InCharset(1)
        /\ Succeeded => CutsAt(BytesOf(input, CharsetRun(FALSE)))

\* the first code point of the input, as bytes
FirstChar == SubSeq(input, 1, BytesOf(input, 1))

(***************************************************************************)
(* C18  OneOf and NoneOf are exact opposites: for every non-empty charset  *)
(* and every non-empty well-formed input, exactly one of OneOf(charset)    *)
(* and NoneOf(charset) succeeds (OneOf iff the first char is in charset,   *)
(* NoneOf iff it is not), and whichever succeeds returns exactly the first *)
(* code point as value and the rest of the input as remainder.             *)
(***************************************************************************)
C18_OneOfNoneOf ==
    /\ MatchesCharset("OneOf") =>
          /\ Succeeded <=> InCharset(1)
          /\ Succeeded <=> NoneOf(parser.chars, input).err /= Nil
          /\ Succeeded => CutsAt(Len(FirstChar))
    /\ MatchesCharset("NoneOf") =>
          /\ Succeeded <=> ~InCharset(1)
          /\ Succeeded <=> OneOf(parser.chars, input).err /= Nil
          /\ Succeeded => CutsAt(Len(FirstChar))

\* the parser Map was applied to
Inner ==
    CHOOSE p \in MapInner : [p EXCEPT !.op = "Map", !.fn = parser.fn] = parser

\* the arguments fn was called with, in order
FnArgs ==
    [i \in 1 .. Cardinality({ j \in 1 .. Len(calls) : calls[j].callee = "fn" }) |->
        LET at == CHOOSE j \in 1 .. Len(calls) :
                     /\ calls[j].callee = "fn"
                     /\ Cardinality({ o \in 1 .. j : calls[o].callee = "fn" }) = i
        IN  calls[at].arg]

\* inner is a success of the inner parser whose value fn accepts, and Map
\* returned what fn made of that value, with the remainder of inner
MapsValue(inner, new) ==
    (/\ ~inner.panic
     /\ inner.err = Nil
     /\ new.err = Nil) =>
        /\ Succeeded
        /\ result.value = new.value
        /\ result.remainder = inner.remainder
        /\ FnArgs = << inner.value >>

MapsInner(inner) == MapsValue(inner, CallFn(parser.fn, inner.value))

(***************************************************************************)
(* C19  Map(parser, fn) with a non-nil fn: whenever parser succeeds on the *)
(* input with (v, rem) and fn(v) succeeds with w, Map returns (w, rem);    *)
(* the remainder is exactly the inner parser's remainder, unchanged, and   *)
(* fn is applied exactly once, to v only.                                  *)
(***************************************************************************)
C19_Map ==
    (Returned /\ parser.op = "Map" /\ parser.fn /= "nil") =>
        MapsInner(Apply(Inner, input))

\* Take(2) under Map: two chars, three bytes, consumed and measured by fn,
\* the rest of the input handed on
C19_Witness ==
    /\ Succeeded
    /\ parser.op = "Map"
    /\ parser.n = 2
    /\ result.value = 3
    /\ result.remainder /= <<>>
    /\ FnArgs = << SubSeq(input, 1, 3) >>

\* the stage Map failed in when its parser returned inner and fn returned new
FailsInStage(inner, new) ==
    /\ inner.err /= Nil =>
          /\ Failed
          /\ result.err = Wrapf("Map: parser returned error: %w", inner.err)
          /\ FnArgs = << >>
    /\ (inner.err = Nil /\ new.err /= Nil) =>
          /\ Failed
          /\ result.err = Wrapf("Map: fn returned error: %w", new.err)
          /\ result.remainder = <<>>

FailsAfter(inner) == FailsInStage(inner, CallFn(parser.fn, inner.value))

(***************************************************************************)
(* C20  Map failure stages: with a nil fn Map fails with 'Map: fn must be  *)
(* a non-nil function' for every input and without invoking the inner      *)
(* parser (even when the inner parser would itself fail); when the inner   *)
(* parser fails, Map fails with 'Map: parser returned error: <inner        *)
(* cause>' and fn is not invoked; when fn fails, Map fails with 'Map: fn   *)
(* returned error: <fn cause>' and the text the inner parser had consumed  *)
(* is not reported (remainder empty).                                      *)
(***************************************************************************)
C20_MapFailureStages ==
    (Returned /\ parser.op = "Map") =>
        IF parser.fn = "nil"
        THEN /\ Failed
             /\ result.err = New("Map: fn must be a non-nil function")
             /\ calls = << >>
        ELSE FailsAfter(Apply(Inner, input))

\* a nil fn given together with a parser that fails on the input
C20_Witness ==
    /\ Returned
    /\ parser.op = "Map"
    /\ parser.fn = "nil"
    /\ Apply(Inner, input).err /= Nil
    /\ Reports("Map: fn must be a non-nil function")

\* the second stage: the inner parser failed and fn was not called
C20_WitnessParserStage ==
    /\ Failed
    /\ parser.op = "Map"
    /\ Len(result.err.msgs) = 2
    /\ result.err.msgs[1] = "Map: parser returned error: %w"
    /\ Len(calls) = 1

\* the third stage: fn failed on a value the inner parser had cut from a
\* longer input
C20_WitnessFnStage ==
    /\ Failed
    /\ parser.op = "Map"
    /\ result.err.msgs[1] = "Map: fn returned error: %w"
    /\ Len(calls) = 2
    /\ Len(calls[2].arg) < Len(input)

SubResult(i, in) == Apply(parser.parsers[i], in)

SubSucceeds(i, in) == ~SubResult(i, in).panic /\ SubResult(i, in).err = Nil

\* k calls of a parser, each on the text in
CallsOn(k, in) == [i \in 1 .. k |-> Called("parser", in)]

(***************************************************************************)
(* C21  Try(p1, ..., pk)(input) applies the parsers in listed order, each  *)
(* to the same original input (never to a remainder of an earlier          *)
(* attempt), and returns the value and remainder of the first pi that      *)
(* succeeds, even if a later parser would succeed and consume more;        *)
(* parsers after the first success are not invoked.  If every parser       *)
(* fails, Try returns the single failure 'Try: all parsers failed' with    *)
(* empty value and remainder, carrying none of the individual causes.      *)
(***************************************************************************)
C21_Try ==
    (Returned /\ parser.op = "Try") =>
        LET k     == Len(parser.parsers)
            wins  == { i \in 1 .. k : SubSucceeds(i, input) }
        IN  IF wins = {}
            THEN /\ result = Return(<<>>, <<>>, New("Try: all parsers failed"))
                 /\ calls = CallsOn(k, input)
            ELSE \E first \in wins :
                    /\ \A i \in wins : first <= i
                    /\ result = SubResult(first, input)
                    /\ calls = CallsOn(first, input)

\* Take(1) listed in front of Take(2), which would consume more: Take(1) wins
\* and Take(2) is not invoked
C21_Witness ==
    /\ Succeeded
    /\ parser.op = "Try"
    /\ Len(parser.parsers) = 2
    /\ parser.parsers[1].op = "Take"
    /\ SubSucceeds(2, input)
    /\ Len(SubResult(2, input).value) > Len(result.value)
    /\ Len(calls) = 1

\* a failing parser in front of the one that succeeds
C21_WitnessSecond ==
    /\ Succeeded
    /\ parser.op = "Try"
    /\ Len(calls) = 2
    /\ result.value /= <<>>

\* the text parser number i + 1 of a sequential combinator is given when
\* each parser is handed the remainder of the one before it: Threaded(0) is
\* the input
RECURSIVE Threaded(_)
Threaded(i) ==
    IF i = 0 THEN input
    ELSE SubResult(i, Threaded(i - 1)).remainder

\* parsers 1 .. i succeed one after the other
AllSucceed(i) == \A j \in 1 .. i : SubSucceeds(j, Threaded(j - 1))

\* the concatenation of a sequence of strings
RECURSIVE Joined(_)
Joined(values) ==
    IF values = << >> THEN << >>
    ELSE Head(values) \o Joined(Tail(values))

(***************************************************************************)
(* C22  Chain(p1, ..., pk)(input) applies p1 to the input and each p(i+1)  *)
(* to the remainder returned by pi; when all succeed the value is the      *)
(* sequence [v1, ..., vk] in application order, the remainder is pk's      *)
(* remainder, and for string-valued primitives v1 + ... + vk + remainder   *)
(* equals the original input.                                              *)
(***************************************************************************)
C22_Chain ==
    (Returned /\ parser.op = "Chain" /\ AllSucceed(Len(parser.parsers))) =>
        LET k == Len(parser.parsers)
        IN  /\ Succeeded
            /\ result.value = [i \in 1 .. k |-> SubResult(i, Threaded(i - 1)).value]
            /\ result.remainder = SubResult(k, Threaded(k - 1)).remainder
            /\ calls = [i \in 1 .. k |-> Called("parser", Threaded(i - 1))]
            /\ Joined(result.value) \o result.remainder = input

\* two parsers that both consume text, the second one working on what the
\* first left, and text left over after both
C22_Witness ==
    /\ Succeeded
    /\ parser.op = "Chain"
    /\ Len(result.value) = 2
    /\ result.value[1] /= <<>>
    /\ result.value[2] /= <<>>
    /\ result.value[1] /= result.value[2]
    /\ result.remainder /= <<>>
    /\ calls[2].arg = Drop(input, Len(result.value[1]))

\* the failure primitive p reports for an empty input when nothing else is
\* wrong
EmptyInputCause(p) ==
    CASE p.op = "Take" -> New("Take: cannot take from empty input")
      [] p.op \in { "Exact", "ExactCaseInsensitive" } ->
            New(p.op \o ": cannot match on empty input")
      [] OTHER -> New(p.op \o ": input text is empty")

\* the first parser of the list that does not succeed on the text threaded
\* to it
FirstFailing ==
    CHOOSE i \in 1 .. Len(parser.parsers) :
        /\ AllSucceed(i - 1)
        /\ ~SubSucceeds(i, Threaded(i - 1))

\* Chain failed at parser number i the way C23 describes, but for the cause
ChainStopsAt(i) ==
    /\ Failed
    /\ result.value = << >>
    /\ result.remainder = << >>
    /\ result.err =
          Wrapf("Chain: sub parser failed: %w", SubResult(i, Threaded(i - 1)).err)
    /\ calls = [j \in 1 .. i |-> Called("parser", Threaded(j - 1))]

\* a Chain one of whose parsers fails
ChainFails ==
    /\ Returned
    /\ parser.op = "Chain"
    /\ ~AllSucceed(Len(parser.parsers))

(***************************************************************************)
(* C23  Chain stops at the first failing sub-parser: if pi is the first to *)
(* fail, p(i+1)..pk are never invoked and Chain returns the failure        *)
(* 'Chain: sub parser failed: <pi's cause>' with a nil value and an empty  *)
(* remainder, discarding the values of p1..p(i-1).  In particular a        *)
(* sub-parser reached after the input has been fully consumed fails with   *)
(* its empty-input cause.                                                  *)
(***************************************************************************)
C23_ChainStops ==
    ChainFails =>
        /\ ChainStopsAt(FirstFailing)
        /\ Threaded(FirstFailing - 1) = << >> =>
              SubResult(FirstFailing, << >>).err
                  = EmptyInputCause(parser.parsers[FirstFailing])

(***************************************************************************)
(* C23 as amended: the same, but a Take with n <= 0 reached after the      *)
(* input has been fully consumed fails with its 'n must be a non-zero      *)
(* positive integer' cause, every other primitive with its empty-input     *)
(* cause.                                                                  *)
(***************************************************************************)
C23_ChainStopsAmended ==
    ChainFails =>
        /\ ChainStopsAt(FirstFailing)
        /\ Threaded(FirstFailing - 1) = << >> =>
              LET p == parser.parsers[FirstFailing]
              IN  SubResult(FirstFailing, << >>).err =
                     IF p.op = "Take" /\ p.n <= 0
                     THEN Errorf("Take: n must be a non-zero positive integer, got %d",
                                 <<p.n>>, <<>>)
                     ELSE EmptyInputCause(p)

\* the first parser consumed the whole input, the second failed on the empty
\* text it was given, and the first one's value is gone
C23_Witness ==
    /\ ChainFails
    /\ FirstFailing = 2
    /\ input /= << >>
    /\ Threaded(1) = << >>
    /\ result.value = << >>
    /\ Len(result.err.msgs) = 2

\* the failure Count makes of the failure chained is: the same cause under
\* Count's own message
AsCountFailure(chained) ==
    Return(<<>>, <<>>,
           Wrapf("Count: parser failed: %w",
                 [chained.err EXCEPT !.msgs = Tail(chained.err.msgs)]))

\* Count returned what chained is, a failure of chained becoming Count's own
SameAsChain(chained) ==
    /\ ~chained.panic
    /\ Succeeded <=> chained.err = Nil
    /\ Succeeded =>
          /\ result.value = chained.value
          /\ result.remainder = chained.remainder
          /\ Len(result.value) = parser.n
    /\ ~Succeeded =>
          /\ Head(chained.err.msgs) = "Chain: sub parser failed: %w"
          /\ result = AsCountFailure(chained)

(***************************************************************************)
(* C24  Count(p, n) is equivalent to Chain of n copies of p: for every     *)
(* input, Count(p, n) succeeds iff Chain(p, ..., p) (n times) succeeds,    *)
(* and then both return the same n values in order and the same            *)
(* remainder; when an application fails Count fails at that application    *)
(* with 'Count: parser failed: <that application's cause>', a nil value    *)
(* and an empty remainder.                                                 *)
(***************************************************************************)
C24_CountIsChain ==
    (Returned /\ parser.op = "Count") =>
        /\ SameAsChain(Chain([i \in 1 .. parser.n |-> parser.parsers[1]], input))
        /\ calls = ChainCalls([i \in 1 .. parser.n |-> parser.parsers[1]], input)

\* Count(p, 2) taking two different values and leaving text over
C24_Witness ==
    /\ Succeeded
    /\ parser.op = "Count"
    /\ parser.n = 2
    /\ Len(result.value) = 2
    /\ result.value[1] /= result.value[2]
    /\ result.remainder /= << >>

\* Count failing at its second application, on the text the first one left
C24_WitnessFailure ==
    /\ Failed
    /\ parser.op = "Count"
    /\ Len(calls) = 2
    /\ calls[2].arg /= << >>
    /\ result.err.msgs[1] = "Count: parser failed: %w"

(***************************************************************************)
(* Termination.                                                            *)
(***************************************************************************)
\* the stepped loops return what the closure returns
ScanAgrees == pc = "returned" => result = Apply(parser, input)

InLoop == pc \in { "loop", "cut" }

\* C26: every primitive invocation terminates: every iteration that stays
\* in a scanning loop moves the position strictly forward, the position
\* never passes the end of the input, a loop whose position is at the end
\* of the input is left by the next step, and every invocation returns
C26_Terminates ==
    /\ [][(InLoop /\ pc' = pc) => loop'.pos > loop.pos]_vars
    /\ [](InLoop => loop.pos <= Len(input))
    /\ [][(InLoop /\ loop.pos >= Len(input)) => pc' /= pc]_vars
    /\ <>(pc = "returned")

\* TakeWhile with a predicate true of every char has returned after
\* ranging over an input of at least three chars
C26_Witness ==
    /\ pc = "returned"
    /\ parser = TakeWhileP(Predicate(Runes))
    /\ loop.pos = Len(input)
    /\ RuneCountInString(input) >= 3

(***************************************************************************)
(* Concurrency.                                                            *)
(***************************************************************************)
HasReturned(r) == invocations[r].pc = "returned"

\* C27: however the steps of the invocations of one parser value
\* interleave, an invocation that has returned has returned what the
\* parser returns on its input when run alone, and two invocations on the
\* same input have returned the same result
C27_NoSharedState ==
    /\ \A r \in Runs :
           HasReturned(r) =>
               invocations[r].result = Apply(parser, invocations[r].input)
    /\ \A r, o \in Runs :
           (HasReturned(r) /\ HasReturned(o) /\ invocations[r].input = invocations[o].input) =>
               invocations[r].result = invocations[o].result

\* two invocations that ran interleaved, on different inputs, have both
\* returned a success
C27_Witness ==
    /\ \A r \in Runs :
           /\ HasReturned(r)
           /\ invocations[r].overlapped
           /\ invocations[r].result.err = Nil
           /\ ~invocations[r].result.panic
           /\ invocations[r].loop.pos > 0
    /\ invocations["a"].input /= invocations["b"].input

(***************************************************************************)
(* C28  Exact, ExactCaseInsensitive, TakeTo, OneOf, NoneOf, AnyOf,         *)
(* NotAnyOf, TakeWhile, TakeUntil and TakeWhileBetween report an empty     *)
(* input as the empty-input failure whatever their configuration (empty    *)
(* match, empty charset, nil predicate, any bounds), and TakeWhile,        *)
(* TakeUntil and TakeWhileBetween report an ill-formed input as 'input     *)
(* not valid utf-8' also when the predicate is nil.                        *)
(***************************************************************************)
EmptyInputFirst ==
    { "Exact", "ExactCaseInsensitive", "TakeTo", "OneOf", "NoneOf", "AnyOf",
      "NotAnyOf", "TakeWhile", "TakeUntil", "TakeWhileBetween" }

PredicateBased == { "TakeWhile", "TakeUntil", "TakeWhileBetween" }

C28_EmptyInputFirst ==
    (Returned /\ parser.op \in EmptyInputFirst) =>
        /\ input = <<>> =>
               /\ Reports(EmptyInputMsg)
               /\ result.value = <<>>
               /\ result.remainder = <<>>
        /\ (parser.op \in PredicateBased /\ input /= <<>> /\ ~WellFormed(input)) =>
               InvalidUtf8

\* TakeWhileBetween with a nil predicate and lower > upper, on the empty
\* input
C28_Witness ==
    /\ Returned
    /\ parser.op = "TakeWhileBetween"
    /\ parser.predicate.nil
    /\ parser.lower > parser.upper
    /\ input = <<>>
    /\ Reports("TakeWhileBetween: input text is empty")

\* TakeUntil with a nil predicate on an ill-formed input
C28_WitnessIllFormed ==
    /\ Returned
    /\ parser.op = "TakeUntil"
    /\ parser.predicate.nil
    /\ input /= <<>>
    /\ ~WellFormed(input)
    /\ InvalidUtf8

(***************************************************************************)
(* C29  TakeWhile and TakeUntil are inverses: for a non-nil predicate p    *)
(* and any input, TakeWhile(p) and TakeUntil(not p) both succeed or both   *)
(* fail, and when they succeed they return the same value and the same     *)
(* remainder.                                                              *)
(***************************************************************************)
\* func(r rune) bool { return !predicate(r) }
Negated(predicate) == Predicate(Runes \ predicate.true)

\* two returns agree on success versus failure and, on success, on the
\* value and the remainder
Agree(a, b) ==
    /\ a.panic = b.panic
    /\ (a.err = Nil) <=> (b.err = Nil)
    /\ (a.err = Nil /\ ~a.panic) =>
           (a.value = b.value /\ a.remainder = b.remainder)

C29_Inverses ==
    /\ (Returned /\ parser.op = "TakeWhile" /\ ~parser.predicate.nil) =>
           Agree(result, TakeUntil(Negated(parser.predicate), input))
    /\ (Returned /\ parser.op = "TakeUntil" /\ ~parser.predicate.nil) =>
           Agree(result, TakeWhile(Negated(parser.predicate), input))

\* TakeWhile has taken a run that is neither empty nor the whole input,
\* from a predicate that is true of some runes and false of others
C29_Witness ==
    /\ Returned
    /\ parser.op = "TakeWhile"
    /\ ~parser.predicate.nil
    /\ parser.predicate.true \notin { {}, Runes }
    /\ result.err = Nil
    /\ ~result.panic
    /\ result.value /= <<>>
    /\ result.remainder /= <<>>

\* TakeWhile has failed on a run that reaches the end of the input
C29_WitnessFailure ==
    /\ Returned
    /\ parser.op = "TakeWhile"
    /\ ~parser.predicate.nil
    /\ WellFormed(input)
    /\ input /= <<>>
    /\ Failed

(***************************************************************************)
(* C30  Char, OneOf and NoneOf report 'input not valid utf-8' only on an   *)
(* ill-formed input; on a well-formed input that begins with U+FFFD,       *)
(* Char(U+FFFD) and OneOf of a charset that holds U+FFFD succeed and       *)
(* consume that char.                                                      *)
(***************************************************************************)
Replacement == EncodeRune(RuneError)

C30_ReplacementChar ==
    (Returned /\ parser.op \in { "Char", "OneOf", "NoneOf" }) =>
        /\ InvalidUtf8 => ~WellFormed(input)
        /\ (/\ WellFormed(input)
            /\ StartsWith(input, Replacement)
            /\ \/ parser.op = "Char" /\ parser.char = RuneError
               \/ /\ parser.op = "OneOf"
                  /\ WellFormed(parser.chars)
                  /\ RuneError \in { CodePoints(parser.chars)[i] :
                                       i \in 1 .. Len(CodePoints(parser.chars)) }) =>
               (Succeeded /\ CutsAt(Len(Replacement)))

====
